---- MODULE Spec2Model ----
(***************************************************************************)
(* Quiz AI: the quiz-data normaliser of the client (QuizGenerator.jsx) and *)
(* the REST backend over the quizzes / quiz_results / quiz_history tables  *)
(* (server.js).                                                            *)
(*                                                                         *)
(* JavaScript values are tagged records: the tag t is what typeof (plus    *)
(* Array.isArray and the null test) tells apart, and a string is the       *)
(* sequence of its characters, so that trim, parseInt, includes and match  *)
(* are computed character by character.                                    *)
(***************************************************************************)
EXTENDS Integers, Sequences, FiniteSets, TLC

VARIABLES
    \* ---- QuizGenerator.jsx: one run of validateAndParseQuizData ----
    questionType,   \* component state questionType
    numQuestions,   \* component state numQuestions
    parsed,         \* what JSON.parse(text) gave: a syntax error, a non-array value, an array of len
    index,          \* forEach index of the next question to validate
    data,           \* the questions validated (and canonicalised in place) so far
    rawQuestion,    \* the raw question the last forEach iteration looked at
    thrown,         \* the Error thrown inside the try block (logged by the catch)
    ret,            \* what validateAndParseQuizData returned to its caller
    npc,            \* position inside validateAndParseQuizData
    \* ---- QuizGenerator.jsx: the component state generateQuiz works on ----
    genAI,          \* component state genAI: whether the effect of lines 177-189 set it
    loading,        \* component state loading
    error,          \* component state error: null or a message
    quiz,           \* component state quiz: null or the questions shown
    toast,          \* the notice react-hot-toast shows, the latest one
    gpc,            \* the await generateQuiz is suspended at, "idle" when none runs
    calls,          \* the calls the generateQuiz that ran last has made, in order
    stateQuizId,    \* component state quizId, 0 for null
    userAnswers,    \* component state userAnswers: the pairs of question index and answer
    spc,            \* the await submitQuiz is suspended at, "idle" when none runs
    mounted,        \* whether the QuizGenerator is mounted
    storage,        \* the keys present in localStorage
    view,           \* QuizDetails.jsx: component state of the view, and where its fetch is
    \* ---- server.js: the three tables and the requests in flight ----
    quizzes,        \* table quizzes, row i has id i (SERIAL)
    quiz_results,   \* committed rows of quiz_results
    quiz_history,   \* committed rows of quiz_history
    results_seq,    \* last value of quiz_results_id_seq
    history_seq,    \* last value of quiz_history_id_seq
    checked_out,    \* clients of the pg pool checked out and not released
    reqs,           \* handlers of POST /api/quiz-results and /api/quiz-history in flight
    postBody,       \* the JSON body the clients send to POST /api/quizzes
    recordReq,      \* the request they send to POST /api/quiz-results or /api/quiz-history
    now,            \* the calendar month of the database clock, counted from the start
    last            \* the request that finished last, with its response

gvars == <<genAI, loading, error, quiz, toast, gpc, calls, stateQuizId, userAnswers, spc,
           mounted, storage, view>>
nvars == <<questionType, numQuestions, parsed, index, data, rawQuestion, thrown, ret, npc,
           genAI, loading, error, quiz, toast, gpc, calls, stateQuizId, userAnswers, spc,
           mounted, storage, view>>
svars == <<quizzes, quiz_results, quiz_history, results_seq, history_seq, checked_out,
           reqs, postBody, recordReq, now, last>>
vars == <<questionType, numQuestions, parsed, index, data, rawQuestion, thrown, ret, npc,
          genAI, loading, error, quiz, toast, gpc, calls, stateQuizId, userAnswers, spc,
          mounted, storage, view,
          quizzes, quiz_results, quiz_history, results_seq, history_seq, checked_out,
          reqs, postBody, recordReq, now, last>>

(***************************************************************************)
(* Bounds of the model.                                                    *)
(***************************************************************************)
MaxBatch == 2        \* longest question array handed to the normaliser
MaxQuizzes == 2      \* rows of quizzes
MaxQuestions == 2    \* questions of one POST /api/quizzes body
MaxRows == 2         \* values drawn from quiz_results_id_seq / quiz_history_id_seq
MaxInFlight == 1     \* result / history handlers running at once
MaxMonth == 14       \* last month the database clock reaches

(***************************************************************************)
(* JavaScript values.                                                      *)
(***************************************************************************)
Undefined == [t |-> "undefined"]
Null == [t |-> "null"]
NaN == [t |-> "NaN"]
Bool(b) == [t |-> "boolean", b |-> b]
Num(n) == [t |-> "number", n |-> n]
Str(s) == [t |-> "string", s |-> s]
Arr(a) == [t |-> "array", a |-> a]

IsString(v) == v.t = "string"
IsArray(v) == v.t = "array"

\* !v for the values the model uses
Falsy(v) ==
    \/ v.t \in {"undefined", "null", "NaN"}
    \/ v.t = "boolean" /\ ~v.b
    \/ v.t = "number" /\ v.n = 0
    \/ v.t = "string" /\ v.s = <<>>

Digits == <<"0", "1", "2", "3", "4", "5", "6", "7", "8", "9">>
IsDigit(c) == \E d \in 1..10 : Digits[d] = c
DigitVal(c) == (CHOOSE d \in 1..10 : Digits[d] = c) - 1
IsSpace(c) == c = " "

UpperChars == <<"A", "B", "C", "D", "E", "F", "G", "H", "I", "J", "K", "L", "M",
                "N", "O", "P", "Q", "R", "S", "T", "U", "V", "W", "X", "Y", "Z">>
LowerChars == <<"a", "b", "c", "d", "e", "f", "g", "h", "i", "j", "k", "l", "m",
                "n", "o", "p", "q", "r", "s", "t", "u", "v", "w", "x", "y", "z">>
LowerChar(c) ==
    IF \E k \in 1..26 : UpperChars[k] = c
    THEN LowerChars[CHOOSE k \in 1..26 : UpperChars[k] = c]
    ELSE c

\* String.prototype.toLowerCase
ToLowerCase(s) == [k \in 1..Len(s) |-> LowerChar(s[k])]

RECURSIVE NatToChars(_)
NatToChars(n) == IF n < 10 THEN <<Digits[n + 1]>>
                 ELSE NatToChars(n \div 10) \o <<Digits[(n % 10) + 1]>>

RECURSIVE Join(_)
\* Array.prototype.join(",") over strings already converted
Join(ss) == IF ss = <<>> THEN <<>>
            ELSE IF Len(ss) = 1 THEN ss[1]
            ELSE ss[1] \o <<",">> \o Join(Tail(ss))

\* String(v) of a value that is no array
ScalarStringOf(v) ==
    CASE v.t = "string" -> v.s
      [] v.t = "number" -> IF v.n < 0 THEN <<"-">> \o NatToChars(-v.n) ELSE NatToChars(v.n)
      [] v.t = "boolean" -> IF v.b THEN <<"t", "r", "u", "e">> ELSE <<"f", "a", "l", "s", "e">>
      [] v.t = "null" -> <<"n", "u", "l", "l">>
      [] v.t = "undefined" -> <<"u", "n", "d", "e", "f", "i", "n", "e", "d">>
      [] v.t = "NaN" -> <<"N", "a", "N">>

\* String(v): an array is its elements joined by ",", null and undefined as ""
StringOf(v) ==
    IF v.t = "array"
    THEN Join([k \in 1..Len(v.a) |->
                 IF v.a[k].t \in {"null", "undefined"} THEN <<>> ELSE ScalarStringOf(v.a[k])])
    ELSE ScalarStringOf(v)

RECURSIVE TrimStart(_)
TrimStart(s) == IF s # <<>> /\ IsSpace(s[1]) THEN TrimStart(Tail(s)) ELSE s
RECURSIVE TrimEnd(_)
TrimEnd(s) == IF s # <<>> /\ IsSpace(s[Len(s)]) THEN TrimEnd(SubSeq(s, 1, Len(s) - 1)) ELSE s
\* String.prototype.trim
Trim(s) == TrimEnd(TrimStart(s))

\* String.prototype.endsWith for a one-character suffix
EndsWith(s, c) == s # <<>> /\ s[Len(s)] = c

BlankMarker == <<"_", "_", "_">>
StartsWith(s, p) == Len(s) >= Len(p) /\ SubSeq(s, 1, Len(p)) = p
\* String.prototype.includes
Includes(s, p) == \E k \in 1..Len(s) : StartsWith(SubSeq(s, k, Len(s)), p)
RECURSIVE CountMatches(_, _)
\* (s.match(/p/g) || []).length: the matches are found left to right and do not overlap
CountMatches(s, p) ==
    IF Len(s) < Len(p) THEN 0
    ELSE IF StartsWith(s, p) THEN 1 + CountMatches(SubSeq(s, Len(p) + 1, Len(s)), p)
    ELSE CountMatches(Tail(s), p)

RECURSIVE DigitsValue(_, _)
\* value of the longest prefix of digits of s, acc being the value read so far
DigitsValue(s, acc) ==
    IF s # <<>> /\ IsDigit(s[1]) THEN DigitsValue(Tail(s), acc * 10 + DigitVal(s[1])) ELSE acc

\* parseInt(v, 10): String(v), leading white space skipped, an optional sign, then
\* the longest run of digits; NaN when there is no digit
ParseInt(v) ==
    LET s == TrimStart(StringOf(v))
        neg == s # <<>> /\ s[1] = "-"
        body == IF s # <<>> /\ s[1] \in {"-", "+"} THEN Tail(s) ELSE s
    IN IF body # <<>> /\ IsDigit(body[1])
       THEN Num(IF neg THEN -DigitsValue(body, 0) ELSE DigitsValue(body, 0))
       ELSE NaN

(***************************************************************************)
(* QuizGenerator.jsx: validateAndParseQuizData.                            *)
(***************************************************************************)
QuestionTypes == {"MCQ", "True/False", "Fill in the Blanks"}

\* the Error thrown for question number questionNum (index + 1)
QuestionError(questionNum, message) ==
    [name |-> "Error", questionNum |-> questionNum, message |-> message]
NoError == [name |-> "none"]

Accepted(q) == [ok |-> TRUE, question |-> q, error |-> NoError]
Rejected(e) == [ok |-> FALSE, question |-> Null, error |-> e]

\* lines 280-282: a missing or non-string explanation becomes ""
DefaultExplanation(e) == IF Falsy(e) \/ ~IsString(e) THEN Str(<<>>) ELSE e

\* the String(x) === "1" disjunct left out
BoolValue_NoOne(a) ==
    IF a.t = "boolean" THEN a.b
    ELSE ToLowerCase(StringOf(a)) = <<"t", "r", "u", "e">>

\* lines 294-299: the True/False answer as an index, 0 for True and 1 for False
BoolValue(a) ==
    IF a.t = "boolean" THEN a.b
    ELSE \/ ToLowerCase(StringOf(a)) = <<"t", "r", "u", "e">>
         \/ StringOf(a) = <<"1">>
TrueFalseIndex(a) == IF BoolValue(a) THEN 0 ELSE 1

\* lines 287-292: the True/False statement trimmed and closed by "." unless it ends in ? or .
TrueFalseText(s) ==
    LET t == Trim(s)
    IN IF ~EndsWith(t, "?") /\ ~EndsWith(t, ".") THEN t \o <<".">> ELSE t

\* line 317: question.options.map((opt) => String(opt).trim())
TrimOptions(opts) == [k \in 1..Len(opts) |-> Str(Trim(StringOf(opts[k])))]

\* the duplicate check left out
HasDuplicates_Skipped(opts) == FALSE

\* lines 323-324: new Set(options).size !== options.length
HasDuplicates(opts) == Cardinality({opts[k] : k \in 1..Len(opts)}) # Len(opts)

\* lines 303-351: the MCQ / Fill in the Blanks branch of one forEach iteration
ValidateChoiceQuestion(q, questionNum, qt) ==
    IF ~IsArray(q.options)
    THEN Rejected(QuestionError(questionNum, "is missing options array"))
    ELSE IF Len(q.options.a) # 4
    THEN Rejected(QuestionError(questionNum, "must have exactly 4 options"))
    ELSE LET options == TrimOptions(q.options.a)
             answerIndex == ParseInt(q.correctAnswer)
         IN IF \E k \in 1..Len(options) : options[k].s = <<>>
            THEN Rejected(QuestionError(questionNum, "has empty options"))
            ELSE IF HasDuplicates(options)
            THEN Rejected(QuestionError(questionNum, "has duplicate options"))
            ELSE IF qt = "Fill in the Blanks" /\ ~Includes(q.question.s, BlankMarker)
            THEN Rejected(QuestionError(questionNum, "must contain ___ to indicate the blank"))
            ELSE IF qt = "Fill in the Blanks" /\ CountMatches(q.question.s, BlankMarker) > 1
            THEN Rejected(QuestionError(questionNum, "should have only one blank (___)"))
            ELSE IF answerIndex = NaN \/ answerIndex.n < 0 \/ answerIndex.n > 3
            THEN Rejected(QuestionError(questionNum, "has invalid correct answer index. Must be 0-3"))
            ELSE Accepted([question |-> q.question,
                           correctAnswer |-> answerIndex,
                           explanation |-> DefaultExplanation(q.explanation),
                           options |-> Arr(options)])

\* lines 285-302: the True/False branch of one forEach iteration
ValidateTrueFalseQuestion(q) ==
    Accepted([question |-> Str(TrueFalseText(q.question.s)),
              correctAnswer |-> Num(TrueFalseIndex(q.correctAnswer)),
              explanation |-> DefaultExplanation(q.explanation),
              options |-> Undefined])

\* the check of the correct answer placed before the check of the question text
ValidateQuestion_AnswerFirst(q, questionNum, qt) ==
    IF q = Null
    THEN Rejected([name |-> "TypeError", questionNum |-> 0,
                   message |-> "Cannot read properties of null"])
    ELSE IF q.correctAnswer = Undefined \/ q.correctAnswer = Null
    THEN Rejected(QuestionError(questionNum, "is missing the correct answer"))
    ELSE IF Falsy(q.question) \/ ~IsString(q.question) \/ Trim(q.question.s) = <<>>
    THEN Rejected(QuestionError(questionNum, "is missing or has invalid question text"))
    ELSE IF qt = "True/False"
    THEN ValidateTrueFalseQuestion(q)
    ELSE ValidateChoiceQuestion(q, questionNum, qt)

\* lines 257-357: the body of data.forEach((question, index) => ...) for one element
ValidateQuestion(q, questionNum, qt) ==
    IF q = Null
    THEN Rejected([name |-> "TypeError", questionNum |-> 0,
                   message |-> "Cannot read properties of null"])
    ELSE IF Falsy(q.question) \/ ~IsString(q.question) \/ Trim(q.question.s) = <<>>
    THEN Rejected(QuestionError(questionNum, "is missing or has invalid question text"))
    ELSE IF q.correctAnswer = Undefined \/ q.correctAnswer = Null
    THEN Rejected(QuestionError(questionNum, "is missing the correct answer"))
    ELSE IF qt = "True/False"
    THEN ValidateTrueFalseQuestion(q)
    ELSE ValidateChoiceQuestion(q, questionNum, qt)

(***************************************************************************)
(* The raw questions the generative model may return: every question text  *)
(* with every answer, every answer with every options field, and every     *)
(* explanation, around one well-formed question; and null.                 *)
(***************************************************************************)
RawTexts ==
    { Undefined, Num(7), Str(<<" ">>), Str(<<"a">>), Str(<<" ", "a", "?", " ">>),
      Str(<<"a", " ", "_", "_", "_">>),
      Str(<<"_", "_", "_", " ", "a", " ", "_", "_", "_">>) }
RawAnswers ==
    { Undefined, Null, Bool(TRUE), Bool(FALSE),
      Str(<<"t", "r", "u", "e">>), Str(<<"f", "a", "l", "s", "e">>), Str(<<"T", "r", "u", "e">>),
      Str(<<"1">>), Str(<<"0">>), Num(1), Num(0), Num(3), Num(4), Num(-1),
      Str(<<"2", "x">>), Str(<<"x">>), Str(<<" ", "2">>) }
RawOptions ==
    { Undefined,
      Arr(<<Str(<<"a">>), Str(<<"b">>), Str(<<"c">>), Str(<<"d">>)>>),
      Arr(<<Str(<<" ", "a">>), Str(<<"b", " ">>), Str(<<"c">>), Str(<<"d">>)>>),
      Arr(<<Str(<<"a">>), Str(<<" ", "a">>), Str(<<"c">>), Str(<<"d">>)>>),
      Arr(<<Str(<<"a">>), Str(<<" ">>), Str(<<"c">>), Str(<<"d">>)>>),
      Arr(<<Str(<<"a">>), Str(<<"b">>), Str(<<"c">>)>>),
      Arr(<<Num(1), Str(<<"1">>), Str(<<"c">>), Str(<<"d">>)>>),
      Arr(<<Num(1), Num(2), Num(3), Null>>) }
RawExplanations == { Undefined, Null, Str(<<>>), Str(<<"e">>) }

GoodText == Str(<<"a", " ", "_", "_", "_">>)
GoodOptions == Arr(<<Str(<<"a">>), Str(<<"b">>), Str(<<"c">>), Str(<<"d">>)>>)

RawQuestions ==
    { [question |-> t, correctAnswer |-> a, explanation |-> Str(<<"e">>), options |-> GoodOptions]
        : t \in RawTexts, a \in RawAnswers }
    \cup
    { [question |-> GoodText, correctAnswer |-> a, explanation |-> Str(<<"e">>), options |-> o]
        : a \in RawAnswers, o \in RawOptions }
    \cup
    { [question |-> GoodText, correctAnswer |-> Num(1), explanation |-> e, options |-> GoodOptions]
        : e \in RawExplanations }
    \cup { Null }

\* what JSON.parse(text) can give
ParsedValues ==
    { [kind |-> "SyntaxError", len |-> 0], [kind |-> "value", len |-> 0] }
    \cup { [kind |-> "array", len |-> n] : n \in 0..MaxBatch }

NotReturned == [t |-> "pending"]

NoToast == [kind |-> "none", message |-> ""]

\* QuizDetails.jsx lines 31-36: the state of a view that is not open
DetailsClosed ==
    [open |-> FALSE, quizId |-> 0, loading |-> TRUE, error |-> Null, retrying |-> FALSE,
     quiz |-> Null, pc |-> "idle"]

\* lines 170-176 and 177-185: the component mounted, with an API key, on an empty
\* localStorage
GenIdle ==
    /\ genAI = TRUE
    /\ loading = FALSE
    /\ error = Null
    /\ quiz = Null
    /\ toast = NoToast
    /\ gpc = "idle"
    /\ calls = <<>>
    /\ stateQuizId = 0
    /\ userAnswers = {}
    /\ spc = "idle"
    /\ mounted = TRUE
    /\ storage = {}
    /\ view = DetailsClosed

NormInit ==
    /\ GenIdle
    /\ questionType \in QuestionTypes
    /\ numQuestions \in 1..MaxBatch
    /\ parsed \in ParsedValues
    /\ index = 0
    /\ data = <<>>
    /\ rawQuestion = Undefined
    /\ thrown = NoError
    /\ ret = NotReturned
    /\ npc = "parse"

\* lines 250-256: JSON.parse and the check of the array against numQuestions; the
\* catch of lines 360-363 logs the error and returns null
ParseText ==
    /\ npc = "parse"
    /\ IF parsed.kind = "SyntaxError"
       THEN /\ thrown' = [name |-> "SyntaxError", questionNum |-> 0,
                          message |-> "Unexpected token"]
            /\ ret' = Null
            /\ npc' = "done"
       ELSE IF parsed.kind # "array" \/ parsed.len # numQuestions
       THEN /\ thrown' = [name |-> "Error", questionNum |-> 0,
                          message |-> "Invalid quiz format - questions array mismatch"]
            /\ ret' = Null
            /\ npc' = "done"
       ELSE /\ npc' = "forEach"
            /\ UNCHANGED <<thrown, ret>>
    /\ UNCHANGED <<questionType, numQuestions, parsed, index, data, rawQuestion>>

\* lines 257-364: one iteration of data.forEach over the element q; the iteration that
\* throws ends the call in the catch (return null), the last one is followed by return data
ForEachQuestion(q) ==
    /\ npc = "forEach"
    /\ index < parsed.len
    /\ LET r == ValidateQuestion(q, index + 1, questionType)
       IN /\ rawQuestion' = q
          /\ IF r.ok
             THEN /\ data' = Append(data, r.question)
                  /\ index' = index + 1
                  /\ thrown' = thrown
                  /\ IF index + 1 = parsed.len
                     THEN ret' = Arr(Append(data, r.question)) /\ npc' = "done"
                     ELSE UNCHANGED <<ret, npc>>
             ELSE /\ thrown' = r.error
                  /\ ret' = Null
                  /\ npc' = "done"
                  /\ UNCHANGED <<data, index>>
    /\ UNCHANGED <<questionType, numQuestions, parsed>>


(***************************************************************************)
(* server.js: the request schemas (Joi, with its default convert mode).    *)
(* A string that no operation looks into is written as one token, as in    *)
(* Str(<<"Easy">>).                                                        *)
(***************************************************************************)
Users == {"userA", "userB"}

MaxTitleLen == 255

Difficulties == {Str(<<"Easy">>), Str(<<"Medium">>), Str(<<"Hard">>)}
ServerQuestionTypes == {Str(<<"MCQ">>), Str(<<"True/False">>), Str(<<"Fill in the Blanks">>)}
Languages == {Str(<<"english">>), Str(<<"hindi">>), Str(<<"spanish">>), Str(<<"french">>),
              Str(<<"german">>), Str(<<"chinese">>), Str(<<"japanese">>), Str(<<"korean">>),
              Str(<<"arabic">>)}

Detail(path, type) == [path |-> path, idx |-> -1, type |-> type]
ItemDetail(idx, path, type) == [path |-> path, idx |-> idx, type |-> type]

\* Joi.string(): a string, and not the empty one
JoiString(v) == IsString(v) /\ v.s # <<>>

\* Joi.number() in convert mode: a number, or a string that is a decimal numeral
IsNumeral(s) == s # <<>> /\ \A k \in 1..Len(s) : IsDigit(s[k])
JoiNumber(v) ==
    IF v.t = "number" THEN v
    ELSE IF IsString(v) /\ IsNumeral(v.s) THEN Num(DigitsValue(v.s, 0))
    ELSE NaN

\* Joi.string().required().trim().max(255), and the optional form of it
RequiredTrimmed(v, path) ==
    IF v = Undefined THEN <<Detail(path, "any.required")>>
    ELSE IF ~IsString(v) THEN <<Detail(path, "string.base")>>
    ELSE IF Trim(v.s) = <<>> THEN <<Detail(path, "string.empty")>>
    ELSE IF Len(Trim(v.s)) > MaxTitleLen THEN <<Detail(path, "string.max")>>
    ELSE <<>>
OptionalTrimmed(v, path) == IF v = Undefined THEN <<>> ELSE RequiredTrimmed(v, path)

\* Joi.number().integer().min(1).required()
RequiredCount(v, path) ==
    IF v = Undefined THEN <<Detail(path, "any.required")>>
    ELSE IF JoiNumber(v) = NaN THEN <<Detail(path, "number.base")>>
    ELSE IF JoiNumber(v).n < 1 THEN <<Detail(path, "number.min")>>
    ELSE <<>>

\* Joi.string().valid(...).required(), and the form with a default
RequiredOneOf(v, allowed, path) ==
    IF v = Undefined THEN <<Detail(path, "any.required")>>
    ELSE IF v \notin allowed THEN <<Detail(path, "any.only")>>
    ELSE <<>>
DefaultedOneOf(v, allowed, path) == IF v = Undefined THEN <<>> ELSE RequiredOneOf(v, allowed, path)

\* lines 61-63: Joi.alternatives().try(Joi.string(), Joi.number(), Joi.boolean()).required()
AnswerDetails(v, idx) ==
    IF v = Undefined THEN <<ItemDetail(idx, "correctAnswer", "any.required")>>
    ELSE IF JoiString(v) \/ v.t = "number" \/ v.t = "boolean" THEN <<>>
    ELSE <<ItemDetail(idx, "correctAnswer", "alternatives.types")>>

\* line 64: Joi.string().allow("", null).optional()
ExplanationDetails(v, idx) ==
    IF v \in {Undefined, Null} \/ IsString(v) THEN <<>>
    ELSE <<ItemDetail(idx, "explanation", "string.base")>>

\* line 65: Joi.array().items(Joi.string()).min(2).required()
OptionsDetails(v, idx) ==
    IF v = Undefined THEN <<ItemDetail(idx, "options", "any.required")>>
    ELSE IF ~IsArray(v) THEN <<ItemDetail(idx, "options", "array.base")>>
    ELSE IF \E k \in 1..Len(v.a) : ~JoiString(v.a[k])
    THEN <<ItemDetail(idx, "options", "string.empty")>>
    ELSE IF Len(v.a) < 2 THEN <<ItemDetail(idx, "options", "array.min")>>
    ELSE <<>>

\* line 60: Joi.string().required()
QuestionTextDetails(v, idx) ==
    IF v = Undefined THEN <<ItemDetail(idx, "question", "any.required")>>
    ELSE IF ~IsString(v) THEN <<ItemDetail(idx, "question", "string.base")>>
    ELSE IF v.s = <<>> THEN <<ItemDetail(idx, "question", "string.empty")>>
    ELSE <<>>

\* lines 59-66: the item idx of questions
QuestionDetails(q, idx) ==
    IF q = Null THEN <<ItemDetail(idx, "questions", "object.base")>>
    ELSE QuestionTextDetails(q.question, idx)
         \o AnswerDetails(q.correctAnswer, idx)
         \o ExplanationDetails(q.explanation, idx)
         \o OptionsDetails(q.options, idx)

RECURSIVE ItemsDetails(_, _)
ItemsDetails(qs, k) ==
    IF k > Len(qs) THEN <<>>
    ELSE QuestionDetails(qs[k], k - 1) \o ItemsDetails(qs, k + 1)

\* lines 57-69: Joi.array().items(...).min(1).required()
QuestionsDetails(v) ==
    IF v = Undefined THEN <<Detail("questions", "any.required")>>
    ELSE IF ~IsArray(v) THEN <<Detail("questions", "array.base")>>
    ELSE IF ItemsDetails(v.a, 1) # <<>> THEN ItemsDetails(v.a, 1)
    ELSE IF Len(v.a) < 1 THEN <<Detail("questions", "array.min")>>
    ELSE <<>>

\* lines 36-70 and 287-290: quizSchema.validate(req.body, {stripUnknown, abortEarly: false}):
\* every failing key in the order of the schema
QuizSchemaDetails(b) ==
    RequiredTrimmed(b.title, "title")
    \o OptionalTrimmed(b.topic, "topic")
    \o RequiredCount(b.numQuestions, "numQuestions")
    \o RequiredOneOf(b.difficulty, Difficulties, "difficulty")
    \o RequiredOneOf(b.questionType, ServerQuestionTypes, "questionType")
    \o DefaultedOneOf(b.language, Languages, "language")
    \o QuestionsDetails(b.questions)

\* the value Joi hands back for a body that passed: strings trimmed, the count a
\* number, the language defaulted
QuizSchemaValue(b) ==
    [title |-> Str(Trim(b.title.s)),
     topic |-> IF b.topic = Undefined THEN Undefined ELSE Str(Trim(b.topic.s)),
     numQuestions |-> JoiNumber(b.numQuestions),
     difficulty |-> b.difficulty,
     questionType |-> b.questionType,
     language |-> IF b.language = Undefined THEN Str(<<"english">>) ELSE b.language,
     questions |-> b.questions]

\* JSON.stringify then the JSONB column read back: a key holding undefined is dropped
\* (and so reads back as undefined), undefined inside an array and NaN become null
JsonItem(v) == IF v \in {Undefined, NaN} THEN Null ELSE v
JsonValue(v) ==
    IF v = NaN THEN Null
    ELSE IF IsArray(v) THEN Arr([k \in 1..Len(v.a) |-> JsonItem(v.a[k])])
    ELSE v
JsonQuestion(q) ==
    IF q = Null THEN Null
    ELSE [question |-> JsonValue(q.question),
          correctAnswer |-> JsonValue(q.correctAnswer),
          explanation |-> JsonValue(q.explanation),
          options |-> JsonValue(q.options)]
JsonQuestions(qs) == [k \in 1..Len(qs) |-> JsonQuestion(qs[k])]

(***************************************************************************)
(* server.js: responses.                                                   *)
(***************************************************************************)
Response(op, user, id, status, body) ==
    [op |-> op, user |-> user, id |-> id, status |-> status, body |-> body]

NoRequest == Response("none", "nobody", 0, 0, [status |-> "none"])

ErrorBody(message) == [status |-> "error", message |-> message]
ValidationBody(message) == [status |-> "error", type |-> "validation", message |-> message]

\* the message of the error pg rejects a query with
PgMessage == "pg: query failed"

\* lines 768-774: the error handler, for an error that carries no statusCode
ErrorHandlerStatus(statusCode) == IF statusCode = 0 THEN 500 ELSE statusCode
ErrorHandlerBody(message) ==
    ErrorBody(IF message = "" THEN "Internal server error" ELSE message)

(***************************************************************************)
(* POST /api/quizzes, lines 275-374.  dbOk: whether pg runs the INSERT.    *)
(***************************************************************************)
\* line 283: a body without language gets "english" before it is validated
WithLanguage(b) ==
    IF Falsy(b.language) THEN [b EXCEPT !.language = Str(<<"english">>)] ELSE b

\* lines 312-321: an MCQ question needs an options array of two or more
McqOptionsMissing(value) ==
    /\ value.questionType = Str(<<"MCQ">>)
    /\ \E k \in 1..Len(value.questions.a) :
          LET q == value.questions.a[k]
          IN ~IsArray(q.options) \/ Len(q.options.a) < 2

\* the check of line 305 left out
CountMismatch_Skipped(value) == FALSE

\* line 305: value.numQuestions !== value.questions.length
CountMismatch(value) == value.numQuestions.n # Len(value.questions.a)

\* lines 323-339: the row the INSERT stores
QuizRow(id, userId, value) ==
    [id |-> id, user_id |-> userId, title |-> value.title,
     topic |-> IF value.topic = Undefined THEN Null ELSE value.topic,
     num_questions |-> value.numQuestions.n, difficulty |-> value.difficulty,
     question_type |-> value.questionType, language |-> value.language,
     questions |-> JsonQuestions(value.questions.a)]

\* lines 347-355: the summary of the created quiz
QuizSummary(row) ==
    [id |-> row.id, title |-> row.title, topic |-> row.topic,
     numQuestions |-> row.num_questions, difficulty |-> row.difficulty,
     questionType |-> row.question_type, language |-> row.language]

CreateQuiz(u, dbOk) ==
    LET body == WithLanguage(postBody)
        details == QuizSchemaDetails(body)
        value == QuizSchemaValue(body)
        row == QuizRow(Len(quizzes) + 1, u, value)
    IN /\ Len(quizzes) < MaxQuizzes
       /\ IF details # <<>>
          THEN /\ last' = Response("createQuiz", u, 0, 400, ValidationBody(details))
               /\ UNCHANGED quizzes
          ELSE IF CountMismatch(value)
          THEN /\ last' = Response("createQuiz", u, 0, 400,
                                   ValidationBody(<<Detail("numQuestions", "does not match actual number of questions")>>))
               /\ UNCHANGED quizzes
          ELSE IF McqOptionsMissing(value)
          THEN /\ last' = Response("createQuiz", u, 0, 400,
                                   ValidationBody(<<Detail("options", "must have at least 2 options for MCQ type")>>))
               /\ UNCHANGED quizzes
          ELSE IF ~dbOk
          THEN /\ last' = Response("createQuiz", u, 0, ErrorHandlerStatus(0),
                                   ErrorHandlerBody(PgMessage))
               /\ UNCHANGED quizzes
          ELSE /\ quizzes' = Append(quizzes, row)
               /\ last' = Response("createQuiz", u, row.id, 201,
                                   [status |-> "success", message |-> "Quiz created successfully",
                                    quiz |-> QuizSummary(row)])
       /\ UNCHANGED <<quiz_results, quiz_history, results_seq, history_seq, checked_out,
                      reqs, postBody, recordReq, now>>

(***************************************************************************)
(* The read endpoints.  dbOk: whether pg answers the query.                *)
(***************************************************************************)
Min(a, b) == IF a < b THEN a ELSE b
MaxOf(S) == CHOOSE x \in S : \A y \in S : y <= x

RECURSIVE Descending(_)
\* the numbers of S, largest first
Descending(S) == IF S = {} THEN <<>> ELSE <<MaxOf(S)>> \o Descending(S \ {MaxOf(S)})

\* rows of quiz_results of one quiz and one user
ResultsOf(quizId, userId) ==
    {r \in quiz_results : r.quiz_id = quizId /\ r.user_id = userId}

\* COUNT(qr.id) and MAX(qr.score) read through parseInt(x || 0): no row gives 0
AttemptsCount(quizId, userId) == Cardinality(ResultsOf(quizId, userId))
HighestScore(quizId, userId) ==
    IF ResultsOf(quizId, userId) = {} THEN 0
    ELSE MaxOf({r.score : r \in ResultsOf(quizId, userId)})

DefaultPage == 1
DefaultLimit == 10

\* lines 379-380: parseInt(req.query.x) || fallback
QueryInt(param, fallback) ==
    IF Falsy(ParseInt(param)) THEN fallback ELSE ParseInt(param).n

\* lines 383-394: the caller's quizzes, newest first (ids follow creation time)
OwnedIdsNewestFirst(userId) ==
    Descending({k \in 1..Len(quizzes) : quizzes[k].user_id = userId})

ListRow(row) ==
    [id |-> row.id, title |-> row.title, topic |-> row.topic,
     num_questions |-> row.num_questions, difficulty |-> row.difficulty,
     question_type |-> row.question_type,
     attempts_count |-> AttemptsCount(row.id, row.user_id),
     highest_score |-> HighestScore(row.id, row.user_id)]

\* LIMIT without OFFSET
Page_NoOffset(ids, limit, offset) == SubSeq(ids, 1, Min(Len(ids), limit))

\* LIMIT limit OFFSET offset over ids
Page(ids, limit, offset) ==
    IF offset >= Len(ids) THEN <<>>
    ELSE SubSeq(ids, offset + 1, Min(Len(ids), offset + limit))

\* line 402: Math.ceil(totalQuizzes / limit)
TotalPages(totalQuizzes, limit) == (totalQuizzes + limit - 1) \div limit

\* line 416: hasMore
HasMore(page, totalPages) == page < totalPages

\* GET /api/quizzes, lines 377-421
ListQuizzes(u, pageParam, limitParam, dbOk) ==
    LET page == QueryInt(pageParam, DefaultPage)
        limit == QueryInt(limitParam, DefaultLimit)
        offset == (page - 1) * limit
        ids == Page(OwnedIdsNewestFirst(u), limit, offset)
        totalQuizzes == Len(OwnedIdsNewestFirst(u))
        totalPages == TotalPages(totalQuizzes, limit)
    IN /\ last' = IF dbOk
                  THEN Response("listQuizzes", u, 0, 200,
                           [status |-> "success",
                            quizzes |-> [k \in 1..Len(ids) |-> ListRow(quizzes[ids[k]])],
                            pagination |-> [currentPage |-> page, totalPages |-> totalPages,
                                            totalQuizzes |-> totalQuizzes,
                                            hasMore |-> HasMore(page, totalPages)]])
                  ELSE Response("listQuizzes", u, 0, ErrorHandlerStatus(0),
                                ErrorHandlerBody(PgMessage))
       /\ UNCHANGED <<quizzes, quiz_results, quiz_history, results_seq, history_seq,
                      checked_out, reqs, postBody, recordReq, now>>

\* lines 428-433: question and options of every stored question
TakeQuestions(qs) == [k \in 1..Len(qs) |-> [question |-> qs[k].question, options |-> qs[k].options]]

\* lines 426-436: FROM quizzes WHERE id = $1
TakeRows(id) == {k \in 1..Len(quizzes) : quizzes[k].id = id}

\* GET /api/quizzes/:id/take, lines 424-446.  NotFoundError is declared nowhere, so
\* line 439 throws a ReferenceError, which the error handler answers
TakeQuiz(u, id, dbOk) ==
    /\ last' = IF ~dbOk
               THEN Response("takeQuiz", u, id, ErrorHandlerStatus(0), ErrorHandlerBody(PgMessage))
               ELSE IF TakeRows(id) = {}
               THEN Response("takeQuiz", u, id, ErrorHandlerStatus(0),
                             ErrorHandlerBody("NotFoundError is not defined"))
               ELSE LET row == quizzes[CHOOSE k \in TakeRows(id) : TRUE]
                    IN Response("takeQuiz", u, id, 200,
                           [id |-> row.id, title |-> row.title, topic |-> row.topic,
                            num_questions |-> row.num_questions, difficulty |-> row.difficulty,
                            question_type |-> row.question_type,
                            jsonb_agg |-> TakeQuestions(row.questions)])
    /\ UNCHANGED <<quizzes, quiz_results, quiz_history, results_seq, history_seq,
                   checked_out, reqs, postBody, recordReq, now>>

\* the WHERE clause of line 713 without the owner
DetailRows_AnyOwner(id, userId) == {k \in 1..Len(quizzes) : quizzes[k].id = id}

\* line 713: WHERE q.id = $1 AND q.user_id = $2
DetailRows(id, userId) ==
    {k \in 1..Len(quizzes) : quizzes[k].id = id /\ quizzes[k].user_id = userId}

\* lines 739-744: the questions as the response gives them
DetailQuestion(q) ==
    [question |-> q.question,
     options |-> IF Falsy(q.options) THEN Arr(<<>>) ELSE q.options,
     correctAnswer |-> q.correctAnswer,
     explanation |-> IF Falsy(q.explanation) THEN Str(<<"No explanation provided">>)
                     ELSE q.explanation]

\* lines 682-692 and 745-750: the attempts of the quiz by the caller, latest first
\* (rows are completed in the order of their ids)
AttemptHistory(quizId, userId) ==
    LET ids == Descending({r.id : r \in ResultsOf(quizId, userId)})
    IN [k \in 1..Len(ids) |->
          LET r == CHOOSE x \in ResultsOf(quizId, userId) : x.id = ids[k]
          IN [id |-> r.id, score |-> r.score, total_questions |-> r.total_questions,
              time_taken |-> r.time_taken, completed_at |-> r.completed_at,
              user_answers |-> r.user_answers, attempt_date |-> r.completed_at]]

\* lines 675-754: what the handler answers when pg answers the query
DetailResponse(u, id) ==
    IF DetailRows(id, u) = {}
    THEN Response("getQuizDetail", u, id, 404, ErrorBody("Quiz not found"))
    ELSE LET row == quizzes[CHOOSE k \in DetailRows(id, u) : TRUE]
         IN Response("getQuizDetail", u, id, 200,
                [status |-> "success",
                 quiz |-> [id |-> row.id, topic |-> row.topic, title |-> row.title,
                           difficulty |-> row.difficulty, question_type |-> row.question_type,
                           num_questions |-> row.num_questions,
                           highest_score |-> HighestScore(row.id, u),
                           attempts_count |-> AttemptsCount(row.id, u),
                           questions |-> [k \in 1..Len(row.questions) |->
                                            DetailQuestion(row.questions[k])],
                           attempt_history |-> AttemptHistory(row.id, u)]])

\* GET /api/quizzes/:id, lines 672-765
GetQuizDetail(u, id, dbOk) ==
    /\ last' = IF dbOk THEN DetailResponse(u, id)
               ELSE Response("getQuizDetail", u, id, ErrorHandlerStatus(0),
                             ErrorHandlerBody(PgMessage))
    /\ UNCHANGED <<quizzes, quiz_results, quiz_history, results_seq, history_seq,
                   checked_out, reqs, postBody, recordReq, now>>

(***************************************************************************)
(* GET /api/statistics, lines 594-669, and processQuizStatistics.          *)
(***************************************************************************)
\* a timestamp of pg as the response carries it
Date(month) == [t |-> "date", month |-> month]

MinOf(S) == CHOOSE x \in S : \A y \in S : x <= y

\* WHERE user_id = $1 over quiz_results
UserResults(userId) == {r \in quiz_results : r.user_id = userId}

RECURSIVE TotalsProduct(_)
\* a common denominator of the fractions score / total_questions of the rows
TotalsProduct(rows) ==
    IF rows = {} THEN 1
    ELSE LET r == CHOOSE x \in rows : TRUE
         IN (IF r.total_questions > 0 THEN r.total_questions ELSE 1)
            * TotalsProduct(rows \ {r})

RECURSIVE PercentSum(_, _)
\* the sum of CASE WHEN total_questions > 0 THEN score::float / total_questions * 100
\* ELSE 0 END over the rows, times the denominator d
PercentSum(rows, d) ==
    IF rows = {} THEN 0
    ELSE LET r == CHOOSE x \in rows : TRUE
         IN (IF r.total_questions > 0 THEN 100 * r.score * (d \div r.total_questions) ELSE 0)
            + PercentSum(rows \ {r}, d)

\* AVG(...) of the rows in hundredths, rounded as toFixed(2) rounds; COALESCE(.., 0)
AverageHundredths(rows) ==
    IF rows = {} THEN 0
    ELSE LET d == TotalsProduct(rows)
             n == Cardinality(rows)
         IN (200 * PercentSum(rows, d) + d * n) \div (2 * d * n)

\* parseFloat(x).toFixed(2): a string with two decimals
ToFixed2(hundredths) ==
    Str(NatToChars(hundredths \div 100)
        \o <<".", Digits[((hundredths % 100) \div 10) + 1], Digits[(hundredths % 10) + 1]>>)

\* lines 612-617: the caller's quizzes that have a result of the caller
AttemptedQuizzes(userId) ==
    {k \in 1..Len(quizzes) :
        /\ quizzes[k].user_id = userId
        /\ \E r \in UserResults(userId) : r.quiz_id = quizzes[k].id}

RECURSIVE JoinedSet(_)
\* Array.from(set).join(', ')
JoinedSet(strings) ==
    IF strings = {} THEN <<>>
    ELSE LET x == CHOOSE y \in strings : TRUE
         IN IF strings = {x} THEN x.s ELSE x.s \o <<",", " ">> \o JoinedSet(strings \ {x})

\* lines 586-589: join(', ') || 'None'
JoinedOrNone(strings) ==
    IF Falsy(Str(JoinedSet(strings))) THEN Str(<<"None">>) ELSE Str(JoinedSet(strings))

\* lines 578-591
processQuizStatistics(rows) ==
    [topics_attempted |-> JoinedOrNone({quizzes[k].topic : k \in {j \in rows : ~Falsy(quizzes[j].topic)}}),
     difficulty_levels_attempted |->
         JoinedOrNone({quizzes[k].difficulty : k \in {j \in rows : ~Falsy(quizzes[j].difficulty)}})]

\* lines 598-609 and 642-651: the counts and the maximum through parseInt, the average
\* through toFixed
StatisticsOverall(userId) ==
    LET rows == UserResults(userId)
    IN [total_quizzes_taken |-> Num(Cardinality({r.quiz_id : r \in rows})),
        total_attempts |-> Num(Cardinality(rows)),
        average_score |-> ToFixed2(AverageHundredths(rows)),
        highest_score |-> Num(IF rows = {} THEN 0 ELSE MaxOf({r.score : r \in rows})),
        first_attempt |-> IF rows = {} THEN Null
                          ELSE Date(MinOf({r.completed_at : r \in rows})),
        last_attempt |-> IF rows = {} THEN Null
                         ELSE Date(MaxOf({r.completed_at : r \in rows})),
        topics_attempted |-> processQuizStatistics(AttemptedQuizzes(userId)).topics_attempted,
        difficulty_levels_attempted |->
            processQuizStatistics(AttemptedQuizzes(userId)).difficulty_levels_attempted]

\* line 633: LIMIT 12
MonthsKept == 12

\* lines 621-633 and 652-656: the months that have a result of the caller, latest
\* first, the first MonthsKept of them
MonthlyProgress(userId) ==
    LET all == Descending({r.completed_at : r \in UserResults(userId)})
        months == SubSeq(all, 1, Min(Len(all), MonthsKept))
    IN [k \in 1..Len(months) |->
          LET rows == {r \in UserResults(userId) : r.completed_at = months[k]}
          IN [month |-> Date(months[k]), attempts |-> Num(Cardinality(rows)),
              average_score |-> ToFixed2(AverageHundredths(rows))]]

\* lines 640-662: what the handler answers when pg answers the three queries
StatisticsResponse(u) ==
    Response("statistics", u, 0, 200,
             [status |-> "success",
              statistics |-> [overall |-> StatisticsOverall(u),
                              monthly_progress |-> MonthlyProgress(u)]])


(***************************************************************************)
(* POST /api/quiz-results (lines 449-510) and POST /api/quiz-history       *)
(* (lines 513-575).  A handler runs between its awaits without             *)
(* interruption, so one action is the settling of the promise it awaits    *)
(* (ok: whether pg fulfilled it) and the code up to the next await.        *)
(***************************************************************************)
\* Joi.number().integer().min(least).required(); least = -1 for no minimum
RequiredInteger(v, path, least) ==
    IF v = Undefined THEN <<Detail(path, "any.required")>>
    ELSE IF JoiNumber(v) = NaN THEN <<Detail(path, "number.base")>>
    ELSE IF least >= 0 /\ JoiNumber(v).n < least THEN <<Detail(path, "number.min")>>
    ELSE <<>>

\* lines 78-84: one item of userAnswers
UserAnswerDetails(item, idx) ==
    IF item.questionIndex = Undefined \/ JoiNumber(item.questionIndex) = NaN
    THEN <<ItemDetail(idx, "questionIndex", "number.base")>>
    ELSE IF item.answer = Undefined THEN <<ItemDetail(idx, "answer", "any.required")>>
    ELSE IF ~(JoiString(item.answer) \/ item.answer.t \in {"number", "boolean", "null"})
    THEN <<ItemDetail(idx, "answer", "alternatives.types")>>
    ELSE IF item.correct.t # "boolean" THEN <<ItemDetail(idx, "correct", "boolean.base")>>
    ELSE <<>>

RECURSIVE UserAnswersItems(_, _)
UserAnswersItems(items, k) ==
    IF k > Len(items) THEN <<>>
    ELSE UserAnswerDetails(items[k], k - 1) \o UserAnswersItems(items, k + 1)

\* lines 76-86: Joi.array().items(...).required()
UserAnswersDetails(v) ==
    IF v = Undefined THEN <<Detail("userAnswers", "any.required")>>
    ELSE IF ~IsArray(v) THEN <<Detail("userAnswers", "array.base")>>
    ELSE UserAnswersItems(v.a, 1)

\* lines 72-88: every failing key of quizResultSchema, in the order of the schema
ResultSchemaDetails(b) ==
    RequiredInteger(b.quizId, "quizId", -1)
    \o RequiredInteger(b.score, "score", 0)
    \o RequiredInteger(b.totalQuestions, "totalQuestions", 1)
    \o UserAnswersDetails(b.userAnswers)
    \o RequiredInteger(b.timeTaken, "timeTaken", 0)

\* lines 94-114: generationParameters
GenerationDetails(g) ==
    IF g = Undefined THEN <<Detail("generationParameters", "any.required")>>
    ELSE (IF g.topic = Undefined THEN <<Detail("topic", "any.required")>>
          ELSE IF ~JoiString(g.topic) THEN <<Detail("topic", "string.empty")>>
          ELSE <<>>)
         \o RequiredOneOf(g.difficulty, Difficulties, "difficulty")
         \o RequiredInteger(g.numQuestions, "numQuestions", 1)
         \o RequiredOneOf(g.questionType, ServerQuestionTypes, "questionType")
         \o DefaultedOneOf(g.language, Languages, "language")

\* lines 91-115: every failing key of quizHistorySchema
HistorySchemaDetails(b) ==
    RequiredInteger(b.quizId, "quizId", -1)
    \o (IF b.promptUsed = Undefined THEN <<Detail("promptUsed", "any.required")>>
        ELSE IF ~JoiString(b.promptUsed) THEN <<Detail("promptUsed", "string.empty")>>
        ELSE <<>>)
    \o GenerationDetails(b.generationParameters)

\* lines 454-458 and 522-526: validate(req.body) stops at the first failing key
\* (abortEarly), and its message is the one thrown
FirstDetail(op, b) ==
    LET all == IF op = "recordResult" THEN ResultSchemaDetails(b) ELSE HistorySchemaDetails(b)
    IN IF all = <<>> THEN <<>> ELSE <<all[1]>>

\* lines 472-486: the row INSERT INTO quiz_results stores
ResultRow(id, userId, value, at) ==
    [id |-> id, user_id |-> userId, quiz_id |-> JoiNumber(value.quizId).n,
     score |-> JoiNumber(value.score).n,
     total_questions |-> JoiNumber(value.totalQuestions).n,
     user_answers |-> value.userAnswers, completed_at |-> at,
     time_taken |-> JoiNumber(value.timeTaken).n]

\* lines 540-551: the row INSERT INTO quiz_history stores
HistoryRow(id, userId, value) ==
    [id |-> id, user_id |-> userId, quiz_id |-> JoiNumber(value.quizId).n,
     prompt_used |-> value.promptUsed,
     generation_parameters |->
         IF value.generationParameters.language = Undefined
         THEN [value.generationParameters EXCEPT !.language = Str(<<"english">>)]
         ELSE value.generationParameters]

\* the errors a handler may hold in its catch block
NoFailure == [kind |-> "none", message |-> <<>>]
ValidationFailure(message) == [kind |-> "ValidationError", message |-> message]
PgFailure == [kind |-> "pg", message |-> <<>>]

Handler(slot, op, user, body) ==
    [slot |-> slot, op |-> op, user |-> user, body |-> body, pc |-> "connect",
     error |-> NoFailure, rowId |-> 0, at |-> 0]

FreeSlots == (1..MaxInFlight) \ {r.slot : r \in reqs}

\* the finally block left out: the client stays checked out
Released_Leaked(n) == n

\* lines 507-509, 572-574, 666-668, 762-764: finally { client.release() }
Released(n) == n - 1


\* the handlers that write, and those that only read
RecordOps == {"recordResult", "recordHistory"}
ReadOps == {"statistics", "getQuizDetail"}

\* a route that checks a client out was called by u with body: line 450 / 514 / 595 /
\* 673, await pool.connect()
Start(op, u, body) ==
    /\ FreeSlots # {}
    /\ reqs' = reqs \cup {Handler(CHOOSE s \in FreeSlots : \A x \in FreeSlots : s <= x,
                                  op, u, body)}
    /\ UNCHANGED <<quizzes, quiz_results, quiz_history, results_seq, history_seq,
                   checked_out, postBody, recordReq, now, last>>

\* GET /api/statistics or GET /api/quizzes/:id was called by u, for the quiz the
\* recorded requests name
StartRead(op, u) == Start(op, u, recordReq.body)

\* the route of the recorded request was called
StartRecord == Start(recordReq.op, recordReq.user, recordReq.body)

\* the handler r at its next await; the catch block holds no row, and the transaction
\* BEGIN opens gives its rows the CURRENT_TIMESTAMP of its start
Moved(r, pc, failure) ==
    (reqs \ {r}) \cup {[r EXCEPT !.pc = pc, !.error = failure,
                                 !.rowId = IF pc = "rollback" THEN 0 ELSE r.rowId,
                                 !.at = IF pc = "insert" THEN now
                                        ELSE IF pc = "rollback" THEN 0 ELSE r.at]}

QuizIdOf(r) == IF JoiNumber(r.body.quizId) = NaN THEN 0 ELSE JoiNumber(r.body.quizId).n

\* the answer to the request r, which the handler then leaves
Answer(r, status, body) ==
    Response(r.op, r.user, IF r.op = "statistics" THEN 0 ELSE QuizIdOf(r), status, body)

\* a rejection nothing catches: Express 4 leaves the request unanswered, Express 5
\* hands the error to the error handler
Uncaught(r, express5) ==
    IF express5 THEN Answer(r, ErrorHandlerStatus(0), ErrorHandlerBody(PgMessage))
    ELSE Answer(r, 0, [status |-> "none"])

\* pool.connect() settled.  Rejected: the handler throws outside its try block.
\* Fulfilled: a reading handler awaits its queries; a writing one validates the body
\* (lines 454-458), a failure goes to the catch, which awaits ROLLBACK, otherwise the
\* handler awaits the SELECT of lines 461-464
Connected(r, ok, express5) ==
    /\ r \in reqs /\ r.pc = "connect"
    /\ IF ~ok
       THEN /\ reqs' = reqs \ {r}
            /\ last' = Uncaught(r, express5)
            /\ UNCHANGED checked_out
       ELSE /\ checked_out' = checked_out + 1
            /\ reqs' = IF r.op \in ReadOps THEN Moved(r, "query", NoFailure)
                       ELSE IF FirstDetail(r.op, r.body) # <<>>
                       THEN Moved(r, "rollback", ValidationFailure(FirstDetail(r.op, r.body)))
                       ELSE Moved(r, "select", NoFailure)
            /\ UNCHANGED last
    /\ UNCHANGED <<quizzes, quiz_results, quiz_history, results_seq, history_seq, postBody, recordReq, now>>

\* the queries of a reading handler settled (the three of Promise.all, lines 598-635,
\* or the one of lines 675-715).  Fulfilled: the answer of the route.  Rejected: the
\* catch hands the error to the error handler.  The finally block releases the client
Queried(r, ok) ==
    /\ r \in reqs /\ r.pc = "query"
    /\ reqs' = reqs \ {r}
    /\ checked_out' = Released(checked_out)
    /\ last' = IF ~ok THEN Answer(r, ErrorHandlerStatus(0), ErrorHandlerBody(PgMessage))
               ELSE IF r.op = "statistics" THEN StatisticsResponse(r.user)
               ELSE DetailResponse(r.user, QuizIdOf(r))
    /\ UNCHANGED <<quizzes, quiz_results, quiz_history, results_seq, history_seq, postBody,
                   recordReq, now>>


\* lines 461-464: SELECT id FROM quizzes WHERE id = $1
QuizCheckRows(id) == {k \in 1..Len(quizzes) : quizzes[k].id = id}

\* the SELECT settled; lines 466-470: no row is a ValidationError, else BEGIN is awaited
Selected(r, ok) ==
    /\ r \in reqs /\ r.pc = "select"
    /\ reqs' = IF ~ok THEN Moved(r, "rollback", PgFailure)
               ELSE IF QuizCheckRows(QuizIdOf(r)) = {}
               THEN Moved(r, "rollback", ValidationFailure(<<Detail("quizId", "Invalid quiz ID")>>))
               ELSE Moved(r, "begin", NoFailure)
    /\ UNCHANGED <<quizzes, quiz_results, quiz_history, results_seq, history_seq,
                   checked_out, postBody, recordReq, now, last>>

\* BEGIN settled; the INSERT is awaited
Begun(r, ok) ==
    /\ r \in reqs /\ r.pc = "begin"
    /\ reqs' = IF ok THEN Moved(r, "insert", NoFailure) ELSE Moved(r, "rollback", PgFailure)
    /\ UNCHANGED <<quizzes, quiz_results, quiz_history, results_seq, history_seq,
                   checked_out, postBody, recordReq, now, last>>

\* the INSERT settled: the row got the next id of its sequence and is held by the
\* open transaction; COMMIT is awaited
Inserted(r, ok) ==
    /\ r \in reqs /\ r.pc = "insert"
    /\ IF ~ok
       THEN /\ reqs' = Moved(r, "rollback", PgFailure)
            /\ UNCHANGED <<results_seq, history_seq>>
       ELSE IF r.op = "recordResult"
       THEN /\ results_seq < MaxRows
            /\ results_seq' = results_seq + 1
            /\ reqs' = (reqs \ {r}) \cup {[r EXCEPT !.pc = "commit", !.rowId = results_seq + 1]}
            /\ UNCHANGED history_seq
       ELSE /\ history_seq < MaxRows
            /\ history_seq' = history_seq + 1
            /\ reqs' = (reqs \ {r}) \cup {[r EXCEPT !.pc = "commit", !.rowId = history_seq + 1]}
            /\ UNCHANGED results_seq
    /\ UNCHANGED <<quizzes, quiz_results, quiz_history, checked_out, postBody, recordReq, now, last>>

\* the row of the open transaction of r
PendingRow(r) ==
    IF r.op = "recordResult" THEN ResultRow(r.rowId, r.user, r.body, r.at)
    ELSE HistoryRow(r.rowId, r.user, r.body)

\* the row is in the table whether or not COMMIT succeeded
TableAfterCommit_Always(rows, row, ok) == rows \cup {row}

\* lines 470-488: the row of a transaction is in the table once COMMIT succeeded
TableAfterCommit(rows, row, ok) == IF ok THEN rows \cup {row} ELSE rows

\* COMMIT settled.  Fulfilled: 201 with the row (lines 490-494), and the finally block
\* releases the client.  Rejected: the catch awaits ROLLBACK
Committed(r, ok) ==
    /\ r \in reqs /\ r.pc = "commit"
    /\ quiz_results' = IF r.op = "recordResult"
                       THEN TableAfterCommit(quiz_results, PendingRow(r), ok)
                       ELSE quiz_results
    /\ quiz_history' = IF r.op = "recordHistory"
                       THEN TableAfterCommit(quiz_history, PendingRow(r), ok)
                       ELSE quiz_history
    /\ IF ok
       THEN /\ reqs' = reqs \ {r}
            /\ checked_out' = Released(checked_out)
            /\ last' = Answer(r, 201,
                          [status |-> "success", result |-> PendingRow(r)])
       ELSE /\ reqs' = Moved(r, "rollback", PgFailure)
            /\ UNCHANGED <<checked_out, last>>
    /\ UNCHANGED <<quizzes, results_seq, history_seq, postBody, recordReq, now>>

\* ROLLBACK settled (lines 495-509 / 560-574).  Fulfilled: a ValidationError is answered
\* 400, any other error goes to the error handler.  Rejected: the catch block itself
\* throws.  Either way the finally block releases the client
RolledBack(r, ok, express5) ==
    /\ r \in reqs /\ r.pc = "rollback"
    /\ reqs' = reqs \ {r}
    /\ checked_out' = Released(checked_out)
    /\ last' = IF ~ok THEN Uncaught(r, express5)
               ELSE IF r.error.kind = "ValidationError"
               THEN Answer(r, 400, ValidationBody(r.error.message))
               ELSE Answer(r, ErrorHandlerStatus(0), ErrorHandlerBody(PgMessage))
    /\ UNCHANGED <<quizzes, quiz_results, quiz_history, results_seq, history_seq, postBody, recordReq, now>>

(***************************************************************************)
(* The bodies sent to POST /api/quizzes: every array of up to MaxQuestions *)
(* of the questions below as MCQ, with a numQuestions around its length;   *)
(* and the well-formed body with one key changed.                          *)
(***************************************************************************)
OptsABCD == Arr(<<Str(<<"a">>), Str(<<"b">>), Str(<<"c">>), Str(<<"d">>)>>)
OptsAB == Arr(<<Str(<<"a">>), Str(<<"b">>)>>)
OptsDup == Arr(<<Str(<<"a">>), Str(<<"a">>), Str(<<"c">>), Str(<<"d">>)>>)
OptsEmptyItem == Arr(<<Str(<<"a">>), Str(<<>>), Str(<<"c">>), Str(<<"d">>)>>)

BodyQuestion(text, options, answer, explanation) ==
    [question |-> text, options |-> options, correctAnswer |-> answer,
     explanation |-> explanation]

PlainQuestion == BodyQuestion(Str(<<"q">>), OptsABCD, Num(1), Str(<<"e">>))

ShortQuestion == BodyQuestion(Str(<<"q">>), OptsAB, Num(7), Null)
BadQuestion == BodyQuestion(Str(<<"q">>), OptsEmptyItem, Undefined, Str(<<"e">>))

BodyQuestions ==
    { PlainQuestion,
      BodyQuestion(Str(<<"q">>), OptsABCD, Num(2), Str(<<>>)),
      ShortQuestion,
      BodyQuestion(Str(<<"q">>), OptsDup, Str(<<"1">>), Undefined) }

SeqsUpTo(S, n) == UNION {[1..k -> S] : k \in 0..n}

QuizBody(title, n, difficulty, type, language, questions) ==
    [title |-> title, topic |-> Str(<<"t">>), numQuestions |-> n, difficulty |-> difficulty,
     questionType |-> type, language |-> language, questions |-> questions]

PlainBody ==
    QuizBody(Str(<<"t Quiz">>), Num(1), Str(<<"Easy">>), Str(<<"MCQ">>), Str(<<"english">>),
             Arr(<<PlainQuestion>>))

CountsAround(len) == {Num(n) : n \in {len - 1, len, len + 1} \cap Nat}

QuizBodies ==
    UNION { { QuizBody(Str(<<"t Quiz">>), n, Str(<<"Easy">>), type, Str(<<"english">>), Arr(qs))
                : n \in CountsAround(Len(qs)), type \in {Str(<<"MCQ">>)} }
            : qs \in SeqsUpTo(BodyQuestions, MaxQuestions) }
    \cup
    { [PlainBody EXCEPT !.title = Undefined],
      [PlainBody EXCEPT !.title = Str(<<" ", "t Quiz", " ">>)],
      [PlainBody EXCEPT !.numQuestions = Str(<<"1">>)],
      [PlainBody EXCEPT !.numQuestions = Undefined],
      [PlainBody EXCEPT !.difficulty = Str(<<"Extreme">>)],
      [PlainBody EXCEPT !.questionType = Str(<<"True/False">>)],
      [PlainBody EXCEPT !.questionType = Str(<<"Fill in the Blanks">>)],
      [PlainBody EXCEPT !.questionType = Str(<<"Fill in the Blanks">>),
                        !.questions = Arr(<<ShortQuestion>>)],
      [PlainBody EXCEPT !.questions = Arr(<<BadQuestion>>)],
      [PlainBody EXCEPT !.questions = Arr(<<PlainQuestion, BadQuestion>>),
                        !.numQuestions = Num(2)],
      [PlainBody EXCEPT !.questionType = Str(<<"Essay">>)],
      [PlainBody EXCEPT !.language = Undefined],
      [PlainBody EXCEPT !.questions = Undefined] }

\* the ids a route parameter may hold: every id in use and one that is not
QuizIds == 1..(MaxQuizzes + 1)
PageParams == {Undefined, Str(<<"2">>)}
LimitParams == {Undefined, Str(<<"1">>)}

(***************************************************************************)
(* The bodies sent to POST /api/quiz-results and POST /api/quiz-history.   *)
(***************************************************************************)
\* the first id, and an id no quiz gets
RecordedIds == {1, MaxQuizzes + 1}

PlainAnswers ==
    Arr(<<[questionIndex |-> Num(0), answer |-> Num(1), correct |-> Bool(TRUE)]>>)

ResultBody(quizId, score) ==
    [quizId |-> quizId, score |-> score, totalQuestions |-> Num(1),
     userAnswers |-> PlainAnswers, timeTaken |-> Num(0)]

ResultBodies ==
    {ResultBody(Num(id), Num(1)) : id \in RecordedIds} \cup {ResultBody(Num(1), Num(-1))}

PlainParameters ==
    [topic |-> Str(<<"t">>), difficulty |-> Str(<<"Easy">>), numQuestions |-> Num(1),
     questionType |-> Str(<<"MCQ">>), language |-> Str(<<"english">>)]

HistoryBody(quizId, promptUsed) ==
    [quizId |-> quizId, promptUsed |-> promptUsed, generationParameters |-> PlainParameters]

HistoryBodies ==
    {HistoryBody(Num(id), Str(<<"p">>)) : id \in RecordedIds}
    \cup {HistoryBody(Num(1), Undefined)}

RecordRequest(op, user, body) == [op |-> op, user |-> user, body |-> body]

PlainRecord == RecordRequest("recordResult", "userA", ResultBody(Num(1), Num(1)))

RecordRequests ==
    {RecordRequest("recordResult", u, b) : u \in Users, b \in ResultBodies}
    \cup {RecordRequest("recordHistory", u, b) : u \in Users, b \in HistoryBodies}

TablesInit ==
    /\ quizzes = <<>>
    /\ quiz_results = {}
    /\ quiz_history = {}
    /\ results_seq = 0
    /\ history_seq = 0
    /\ checked_out = 0
    /\ reqs = {}
    /\ now = 0
    /\ last = NoRequest

\* no call of validateAndParseQuizData under way
NormIdle ==
    /\ GenIdle
    /\ questionType = "MCQ"
    /\ numQuestions = 1
    /\ parsed = [kind |-> "array", len |-> 0]
    /\ index = 0
    /\ data = <<>>
    /\ rawQuestion = Undefined
    /\ thrown = NoError
    /\ ret = NotReturned
    /\ npc = "idle"

(***************************************************************************)
(* The normaliser alone: every input of the bounded sets, one call each.   *)
(***************************************************************************)
NormNext ==
    \/ ParseText /\ UNCHANGED <<gvars, svars>>
    \/ \E q \in RawQuestions : ForEachQuestion(q) /\ UNCHANGED <<gvars, svars>>

InitNorm == NormInit /\ TablesInit /\ postBody = PlainBody /\ recordReq = PlainRecord

SpecNorm == InitNorm /\ [][NormNext]_vars

(***************************************************************************)
(* The quiz endpoints: the clients post one body, any number of times and  *)
(* as either user, and read.                                               *)
(***************************************************************************)
Init == NormIdle /\ TablesInit /\ postBody \in QuizBodies /\ recordReq = PlainRecord

Next ==
    \/ \E u \in Users, dbOk \in BOOLEAN : CreateQuiz(u, dbOk) /\ UNCHANGED nvars
    \/ \E u \in Users, p \in PageParams, l \in LimitParams, dbOk \in BOOLEAN :
          ListQuizzes(u, p, l, dbOk) /\ UNCHANGED nvars
    \/ \E u \in Users, id \in QuizIds, dbOk \in BOOLEAN : TakeQuiz(u, id, dbOk) /\ UNCHANGED nvars
    \/ \E u \in Users, id \in QuizIds, dbOk \in BOOLEAN :
          GetQuizDetail(u, id, dbOk) /\ UNCHANGED nvars

Spec == Init /\ [][Next]_vars
(***************************************************************************)
(* The write endpoints: quizzes are created from the well-formed body, and *)
(* results and histories are recorded by handlers that interleave at their *)
(* awaits.                                                                 *)
(***************************************************************************)
InitTxn == NormIdle /\ TablesInit /\ postBody = PlainBody /\ recordReq \in RecordRequests

NextTxn ==
    \/ \E u \in Users, dbOk \in BOOLEAN : CreateQuiz(u, dbOk) /\ UNCHANGED nvars
    \/ StartRecord /\ UNCHANGED nvars
    \/ \E r \in reqs, ok \in BOOLEAN, express5 \in BOOLEAN :
          Connected(r, ok, express5) /\ UNCHANGED nvars
    \/ \E r \in reqs, ok \in BOOLEAN : Selected(r, ok) /\ UNCHANGED nvars
    \/ \E r \in reqs, ok \in BOOLEAN : Begun(r, ok) /\ UNCHANGED nvars
    \/ \E r \in reqs, ok \in BOOLEAN : Inserted(r, ok) /\ UNCHANGED nvars
    \/ \E r \in reqs, ok \in BOOLEAN : Committed(r, ok) /\ UNCHANGED nvars
    \/ \E r \in reqs, ok \in BOOLEAN, express5 \in BOOLEAN :
          RolledBack(r, ok, express5) /\ UNCHANGED nvars

SpecTxn == InitTxn /\ [][NextTxn]_vars

(***************************************************************************)
(* simpleAuth, lines 164-177, in front of every /api route, and GET        *)
(* /health, lines 255-272, which has no middleware.                        *)
(***************************************************************************)
Header(userId, username) == [userId |-> userId, username |-> username]

\* line 168: if (!userId || !username) return 401
Authenticated(headers) == ~Falsy(headers.userId) /\ ~Falsy(headers.username)

\* line 175: req.user.userId
UserOf(headers) == headers.userId.s[1]

\* lines 169-172
AuthenticationRequired(op) ==
    Response(op, "nobody", 0, 401, ErrorBody("Authentication required"))

\* app.<method>(path, simpleAuth, handler): the handler runs when simpleAuth called next()
Route(op, headers, handler) ==
    IF Authenticated(headers) THEN handler
    ELSE /\ last' = AuthenticationRequired(op)
         /\ UNCHANGED <<quizzes, quiz_results, quiz_history, results_seq, history_seq,
                        checked_out, reqs, postBody, recordReq, now>>

\* the message of the SyntaxError express.json() passes to next() for a body it
\* cannot parse; the error carries statusCode 400
JsonMessage == "body-parser: unexpected token in JSON"

\* line 161: app.use(express.json()) runs before the route, and so before simpleAuth.
\* parses: whether the body of the request is JSON text
JsonRoute(op, parses, headers, handler) ==
    IF parses THEN Route(op, headers, handler)
    ELSE /\ last' = Response(op, "nobody", 0, ErrorHandlerStatus(400),
                             ErrorHandlerBody(JsonMessage))
         /\ UNCHANGED <<quizzes, quiz_results, quiz_history, results_seq, history_seq,
                        checked_out, reqs, postBody, recordReq, now>>

\* GET /health, lines 255-272.  dbOk: whether pg answers SELECT NOW()
Health(dbOk) ==
    /\ last' = IF dbOk
               THEN Response("health", "nobody", 0, 200,
                             [status |-> "ok", database |-> [status |-> "connected",
                                                             timestamp |-> Date(now)]])
               ELSE Response("health", "nobody", 0, 503, ErrorBody("Service unavailable"))
    /\ UNCHANGED <<quizzes, quiz_results, quiz_history, results_seq, history_seq,
                   checked_out, reqs, postBody, recordReq, now>>

\* the headers a request comes with: both, or one of them missing or empty
HeaderSets ==
    {Header(Str(<<"userA">>), Str(<<"name">>)),
     Header(Undefined, Str(<<"name">>)), Header(Str(<<"userA">>), Undefined),
          Header(Str(<<"userA">>), Str(<<>>))}

\* the routes whose handler is one step
Quizzes(headers) ==
    \/ \E parses \in BOOLEAN :
          JsonRoute("createQuiz", parses, headers,
                    \E dbOk \in BOOLEAN : CreateQuiz(UserOf(headers), dbOk))
    \/ Route("listQuizzes", headers,
             \E dbOk \in BOOLEAN : ListQuizzes(UserOf(headers), Undefined, Undefined, dbOk))
    \/ Route("takeQuiz", headers,
             \E id \in RecordedIds, dbOk \in BOOLEAN : TakeQuiz(UserOf(headers), id, dbOk))
    \/ Route("getQuizDetail", headers,
             \E id \in RecordedIds, dbOk \in BOOLEAN : GetQuizDetail(UserOf(headers), id, dbOk))

\* the routes whose handler checks a client out: the handler starts
Records(headers) ==
    \/ \E parses \in BOOLEAN :
          JsonRoute(recordReq.op, parses, headers,
                    UserOf(headers) = recordReq.user /\ StartRecord)
    \/ Route("statistics", headers, StartRead("statistics", UserOf(headers)))

InitAuth == NormIdle /\ TablesInit /\ postBody = PlainBody /\ recordReq = PlainRecord

NextAuth ==
    \/ \E headers \in HeaderSets : Quizzes(headers) /\ UNCHANGED nvars
    \/ \E headers \in HeaderSets : Records(headers) /\ UNCHANGED nvars
    \/ \E dbOk \in BOOLEAN : Health(dbOk) /\ UNCHANGED nvars
    \/ \E r \in reqs : Connected(r, TRUE, FALSE) /\ UNCHANGED nvars
    \/ \E r \in reqs : Queried(r, TRUE) /\ UNCHANGED nvars
    \/ \E r \in reqs : Selected(r, TRUE) /\ UNCHANGED nvars
    \/ \E r \in reqs : Begun(r, TRUE) /\ UNCHANGED nvars
    \/ \E r \in reqs : Inserted(r, TRUE) /\ UNCHANGED nvars
    \/ \E r \in reqs : Committed(r, TRUE) /\ UNCHANGED nvars
    \/ \E r \in reqs : RolledBack(r, TRUE, FALSE) /\ UNCHANGED nvars

SpecAuth == InitAuth /\ [][NextAuth]_vars


(***************************************************************************)
(* Quizzes created from the well-formed body, listed page by page and read.*)
(***************************************************************************)
ListPages == {Undefined, Str(<<"1">>), Str(<<"2">>), Str(<<"3">>)}
ListLimits == {Undefined, Str(<<"1">>), Str(<<"2">>)}

InitList == NormIdle /\ TablesInit /\ postBody = PlainBody /\ recordReq = PlainRecord

NextList ==
    \/ \E u \in Users, dbOk \in BOOLEAN : CreateQuiz(u, dbOk) /\ UNCHANGED nvars
    \/ \E u \in Users, p \in ListPages, l \in ListLimits, dbOk \in BOOLEAN :
          ListQuizzes(u, p, l, dbOk) /\ UNCHANGED nvars
    \/ \E u \in Users, id \in QuizIds, dbOk \in BOOLEAN :
          GetQuizDetail(u, id, dbOk) /\ UNCHANGED nvars

SpecList == InitList /\ [][NextList]_vars


(***************************************************************************)
(* Results recorded over the months and read back by GET /api/statistics   *)
(* and GET /api/quizzes/:id, with a database that answers every query.     *)
(***************************************************************************)
\* the clock moves on past the months the monthly series keeps
TickSteps == {MonthsKept + 1}

Tick(months) ==
    /\ now + months <= MaxMonth
    /\ now' = now + months
    /\ UNCHANGED <<quizzes, quiz_results, quiz_history, results_seq, history_seq,
                   checked_out, reqs, postBody, recordReq, last>>

StatRequests ==
    {RecordRequest("recordResult", u, ResultBody(Num(1), Num(score))) :
        u \in Users, score \in {0, 1}}

InitStats == NormIdle /\ TablesInit /\ postBody = PlainBody /\ recordReq \in StatRequests

NextStats ==
    \/ CreateQuiz(recordReq.user, TRUE) /\ UNCHANGED nvars
    \/ \E months \in TickSteps : Tick(months) /\ UNCHANGED nvars
    \/ StartRecord /\ UNCHANGED nvars
    \/ \E op \in ReadOps : StartRead(op, recordReq.user) /\ UNCHANGED nvars
    \/ \E r \in reqs : Connected(r, TRUE, FALSE) /\ UNCHANGED nvars
    \/ \E r \in reqs : Queried(r, TRUE) /\ UNCHANGED nvars
    \/ \E r \in reqs : Selected(r, TRUE) /\ UNCHANGED nvars
    \/ \E r \in reqs : Begun(r, TRUE) /\ UNCHANGED nvars
    \/ \E r \in reqs : Inserted(r, TRUE) /\ UNCHANGED nvars
    \/ \E r \in reqs : Committed(r, TRUE) /\ UNCHANGED nvars
    \/ \E r \in reqs : RolledBack(r, TRUE, FALSE) /\ UNCHANGED nvars

SpecStats == InitStats /\ [][NextStats]_vars


(***************************************************************************)
(* The four handlers that check a client out of the pool, every await of   *)
(* which may be rejected; the caller creates the quizzes it works on.      *)
(***************************************************************************)
InitPool == NormIdle /\ TablesInit /\ postBody = PlainBody /\ recordReq \in RecordRequests

NextPool ==
    \/ CreateQuiz(recordReq.user, TRUE) /\ UNCHANGED nvars
    \/ StartRecord /\ UNCHANGED nvars
    \/ \E op \in ReadOps : StartRead(op, recordReq.user) /\ UNCHANGED nvars
    \/ \E r \in reqs, ok \in BOOLEAN, express5 \in BOOLEAN :
          Connected(r, ok, express5) /\ UNCHANGED nvars
    \/ \E r \in reqs, ok \in BOOLEAN : Queried(r, ok) /\ UNCHANGED nvars
    \/ \E r \in reqs, ok \in BOOLEAN : Selected(r, ok) /\ UNCHANGED nvars
    \/ \E r \in reqs, ok \in BOOLEAN : Begun(r, ok) /\ UNCHANGED nvars
    \/ \E r \in reqs, ok \in BOOLEAN : Inserted(r, ok) /\ UNCHANGED nvars
    \/ \E r \in reqs, ok \in BOOLEAN : Committed(r, ok) /\ UNCHANGED nvars
    \/ \E r \in reqs, ok \in BOOLEAN, express5 \in BOOLEAN :
          RolledBack(r, ok, express5) /\ UNCHANGED nvars

SpecPool == InitPool /\ [][NextPool]_vars

\* the questions of the body as sent, and those of the last GET /api/quizzes/:id answer
SentQuestions == postBody.questions.a
GotQuestions == last.body.quiz.questions

\* C1: a quiz accepted by POST /api/quizzes and read back by its owner through
\* GET /api/quizzes/:id has its questions in the order sent, each with the options,
\* correctAnswer and explanation that were sent, an empty or null explanation included.
C1_RoundTrip ==
    (last.op = "getQuizDetail" /\ last.status = 200) =>
        /\ Len(GotQuestions) = Len(SentQuestions)
        /\ \A k \in 1..Len(GotQuestions) :
              /\ GotQuestions[k].options = SentQuestions[k].options
              /\ GotQuestions[k].correctAnswer = SentQuestions[k].correctAnswer
              /\ GotQuestions[k].explanation = SentQuestions[k].explanation

\* the ids of the quiz rows a read response carries content of
ReturnedQuizIds(r) ==
    CASE r.op = "listQuizzes" -> {r.body.quizzes[k].id : k \in 1..Len(r.body.quizzes)}
      [] r.op = "getQuizDetail" -> {r.body.quiz.id}
      [] r.op = "takeQuiz" -> {r.body.id}
      [] OTHER -> {}

\* C2: no read endpoint answers a caller with content of a quiz row of another user.
C2_ReadsOwnerScoped ==
    (last.op \in {"listQuizzes", "getQuizDetail", "takeQuiz"} /\ last.status = 200) =>
        \A id \in ReturnedQuizIds(last) : quizzes[id].user_id = last.user

\* the last request was GET /api/quizzes/:id for a quiz of another user
DetailOfForeignQuiz ==
    /\ last.op = "getQuizDetail"
    /\ last.id \in 1..Len(quizzes)
    /\ quizzes[last.id].user_id # last.user

\* C3: GET /api/quizzes/:id for a quiz of another user answers 404 with the body an id
\* that matches no row gets (and, when pg fails, the 500 every id gets).
C3_ForeignLikeAbsent ==
    DetailOfForeignQuiz =>
        /\ last.status \in {404, 500}
        /\ last.status = 404 =>
              /\ last.status = DetailResponse(last.user, Len(quizzes) + 1).status
              /\ last.body = DetailResponse(last.user, Len(quizzes) + 1).body
        /\ last.status = 500 => last.body = ErrorHandlerBody(PgMessage)

\* userB asked for the quiz of userA and got 404
C3_Witness ==
    /\ DetailOfForeignQuiz /\ last.user = "userB" /\ last.status = 404
    /\ last.body = ErrorBody("Quiz not found")

\* C5: every persisted MCQ or Fill in the Blanks quiz has, in every question, exactly 4
\* non-empty pairwise distinct options and a correctAnswer that is an integer in 0..3.
C5_PersistedQuestionsCanonical ==
    \A r \in 1..Len(quizzes) :
        quizzes[r].question_type \in {Str(<<"MCQ">>), Str(<<"Fill in the Blanks">>)} =>
            \A k \in 1..Len(quizzes[r].questions) :
                LET q == quizzes[r].questions[k]
                IN /\ IsArray(q.options)
                   /\ Len(q.options.a) = 4
                   /\ \A i \in 1..Len(q.options.a) : JoiString(q.options.a[i])
                   /\ \A i, j \in 1..Len(q.options.a) :
                         i # j => q.options.a[i] # q.options.a[j]
                   /\ q.correctAnswer.t = "number"
                   /\ q.correctAnswer.n \in 0..3

\* the body names a number of questions that is not the length of its questions array
BodyCountMismatch ==
    /\ IsArray(postBody.questions)
    /\ JoiNumber(postBody.numQuestions) # NaN
    /\ JoiNumber(postBody.numQuestions).n # Len(postBody.questions.a)

\* C6: POST /api/quizzes with a numQuestions that is not questions.length is answered
\* 400 and inserts nothing, and every row of quizzes has num_questions equal to the
\* length of its questions.
C6_CountMatches ==
    /\ BodyCountMismatch =>
          /\ quizzes = <<>>
          /\ last.op = "createQuiz" => last.status = 400
    /\ \A r \in 1..Len(quizzes) : quizzes[r].num_questions = Len(quizzes[r].questions)

\* numQuestions = 3 with two well-formed questions was refused by the check of line 305
C6_Witness ==
    /\ postBody.numQuestions = Num(3) /\ Len(postBody.questions.a) = 2
    /\ last.op = "createQuiz" /\ last.status = 400
    /\ last.body.message = <<Detail("numQuestions", "does not match actual number of questions")>>

\* the answer is the one the error handler gives to a rejected query
PgAnswer(response) ==
    response.status = ErrorHandlerStatus(0) /\ response.body = ErrorHandlerBody(PgMessage)

\* C13: GET /api/quizzes/:id/take for an id no row of quizzes has is answered 404 with
\* the error envelope (an answer to a query pg rejected set aside).
C13_TakeAbsentIs404 ==
    last.op = "takeQuiz" /\ TakeRows(last.id) = {} /\ ~PgAnswer(last)
        => last.status = 404 /\ last.body.status = "error"

\* C14: every 500 carries one fixed generic message, not the message of the exception.
C14_GenericMessage ==
    last.status = 500 => last.body = ErrorBody("Internal server error")

\* C11: the clients checked out of the pool are those of the handlers past their
\* pool.connect(): each handler that ends, on any path, has released its client once,
\* and with no handler running no client is checked out.
C11_ClientsReleased ==
    /\ checked_out = Cardinality({r \in reqs : r.pc # "connect"})
    /\ reqs = {} => checked_out = 0

\* the 404 early return of GET /api/quizzes/:id was taken and no handler is running
C11_Witness ==
    /\ reqs = {} /\ checked_out = 0
    /\ last.op = "getQuizDetail" /\ last.status = 404


\* C12: every request that ended was answered (a request that met a rejected database
\* operation with 500): none is left without a response.
C12_EveryRequestAnswered ==
    last.op # "none" => last.status \in {200, 201, 400, 404, 500}


\* page p and limit l of a request: the number sent, or the default of the route
Requested(param, fallback) == IF param = Undefined THEN fallback ELSE DigitsValue(param.s, 0)

\* the ids at positions from..to of the caller's quizzes, latest creation first
Positions(userId, from, to) ==
    LET owned == Descending({k \in 1..Len(quizzes) : quizzes[k].user_id = userId})
    IN [k \in 1..(IF to < from THEN 0 ELSE to - from + 1) |-> owned[from + k - 1]]

\* page 2 with limit 10 of 15 quizzes: 5 quizzes, and no more
C17_Example ==
    /\ Len(Page([k \in 1..15 |-> 16 - k], 10, (2 - 1) * 10)) = 5
    /\ ~HasMore(2, TotalPages(15, 10))

C17_Step ==
    last'.op = "listQuizzes" /\ last'.status = 200
    => /\ C17_Example
       /\ \A pageParam \in ListPages, limitParam \in ListLimits :
             ListQuizzes(last'.user, pageParam, limitParam, TRUE)
             => LET p == Requested(pageParam, DefaultPage)
                    l == Requested(limitParam, DefaultLimit)
                    n == Cardinality({k \in 1..Len(quizzes) :
                                         quizzes[k].user_id = last'.user})
                    listed == last'.body.quizzes
                IN /\ [k \in 1..Len(listed) |-> listed[k].id]
                         = Positions(last'.user, (p - 1) * l + 1, Min(p * l, n))
                   /\ last'.body.pagination.hasMore = (p * l < n)

\* C17: GET /api/quizzes with page p and limit l answers the caller's quizzes at
\* positions (p-1)*l+1 .. min(p*l, N) of the latest-first order, with hasMore exactly
\* when quizzes remain after position p*l (p < ceil(N/l)); page 2, limit 10 of 15
\* quizzes gives 5 quizzes and hasMore false.
C17_Pagination == [][C17_Step]_vars

\* page 2 with limit 1 of the two quizzes of the caller: the older one, and no more
C17_Witness ==
    /\ last.op = "listQuizzes" /\ last.status = 200
    /\ last.body.pagination.currentPage = 2
    /\ last.body.pagination.totalQuizzes = 2
    /\ Len(last.body.quizzes) = 1
    /\ last.body.quizzes[1].id = MinOf({k \in 1..Len(quizzes) : quizzes[k].user_id = last.user})
    /\ ~last.body.pagination.hasMore


\* the rows of the table the handler op writes, before and after a step
TableOf(op) == IF op = "recordResult" THEN quiz_results ELSE quiz_history
TableAfter(op) == IF op = "recordResult" THEN quiz_results' ELSE quiz_history'

\* the quiz a stored row or an accepted request names belongs to that user
OwnsQuiz(userId, quizId) ==
    \E k \in 1..Len(quizzes) : quizzes[k].id = quizId /\ quizzes[k].user_id = userId

\* C4: a result or a history recorded by one user for the quiz of another user is
\* rejected, and every stored quiz_results / quiz_history row references a quiz whose
\* user_id is the user_id of the row.
C4_WritesOwnerScoped ==
    /\ \A row \in quiz_results : OwnsQuiz(row.user_id, row.quiz_id)
    /\ \A row \in quiz_history : OwnsQuiz(row.user_id, row.quiz_id)
    /\ last.op \in RecordOps /\ last.status = 201 => OwnsQuiz(last.user, last.id)

\* the handlers that answered (or dropped) their request in this step
Left == {h \in reqs : \A x \in reqs' : x.slot # h.slot}

\* the answer stands for a failure of pg: the error handler's 500, or no answer at all
PgFailed(response) == response.status \in {0, ErrorHandlerStatus(0)}

C10_Step ==
    /\ \A h \in Left \cap {x \in reqs : x.op \in RecordOps} :
          /\ last'.op = h.op /\ last'.user = h.user
          /\ last'.status = 201 =>
                /\ Cardinality(TableAfter(h.op) \ TableOf(h.op)) = 1
                /\ TableOf(h.op) \subseteq TableAfter(h.op)
                /\ TableAfter(h.op) \ TableOf(h.op) = {last'.body.result}
                /\ \A row \in TableOf(h.op) : row.id # last'.body.result.id
                /\ last'.body.result.user_id = h.user
                /\ last'.body.result.quiz_id = QuizIdOf(h)
                /\ QuizCheckRows(QuizIdOf(h)) # {}
          /\ last'.status # 201 => TableAfter(h.op) = TableOf(h.op)
          /\ QuizCheckRows(QuizIdOf(h)) = {} => last'.status = 400 \/ PgFailed(last')
          /\ last'.status \in {201, 400} \/ PgFailed(last')
    /\ (\A h \in Left : h.op # "recordResult") => quiz_results' = quiz_results
    /\ (\A h \in Left : h.op # "recordHistory") => quiz_history' = quiz_history

C16_ZeroStatistics ==
    last.op = "statistics" /\ last.status = 200 /\ UserResults(last.user) = {}
        => LET overall == last.body.statistics.overall
           IN /\ overall.total_quizzes_taken = Num(0)
              /\ overall.total_attempts = Num(0)
              /\ overall.average_score = Num(0)
              /\ overall.highest_score = Num(0)
              /\ overall.topics_attempted = Str(<<"None">>)
              /\ overall.difficulty_levels_attempted = Str(<<"None">>)
              /\ last.body.statistics.monthly_progress = <<>>

RECURSIVE ScoreSum(_)
ScoreSum(rows) ==
    IF rows = {} THEN 0
    ELSE LET r == CHOOSE x \in rows : TRUE IN r.score + ScoreSum(rows \ {r})

C18_Step ==
    \A h \in Left :
        LET rows == ResultsOf(QuizIdOf(h), h.user)
            detail == last'.body.quiz
            history == detail.attempt_history
        IN h.op = "getQuizDetail" /\ last'.status = 200 /\ rows # {}
           => /\ Len(history) = Cardinality(rows)
              /\ {history[k].id : k \in 1..Len(history)} = {r.id : r \in rows}
              /\ \A i, j \in 1..Len(history) :
                    i < j => history[i].completed_at >= history[j].completed_at
              /\ detail.highest_score = MaxOf({r.score : r \in rows})
              /\ "average_score" \in DOMAIN detail
              /\ detail.average_score * Cardinality(rows) = ScoreSum(rows)

\* C18: the answer of GET /api/quizzes/:id for an owned quiz with attempts carries all
\* attempts of the owner, latest completion first, the highest score, and the average
\* score of the attempts.
C18_DetailAggregates == [][C18_Step]_vars

C19_Step ==
    \A h \in Left :
        h.op = "statistics" /\ last'.status = 200
        => LET monthly == last'.body.statistics.monthly_progress
           IN /\ Len(monthly) <= MonthsKept
              /\ \A k \in 1..Len(monthly) :
                    /\ monthly[k].month.month >= now - MonthsKept
                    /\ monthly[k].attempts =
                          Num(Cardinality({r \in UserResults(h.user) :
                                              r.completed_at = monthly[k].month.month}))

\* C19: the monthly series of GET /api/statistics has at most 12 buckets, none for a
\* month more than 12 calendar months before the request, and the attempts of a bucket
\* count the caller's results completed in its month.
C19_MonthlyWindow == [][C19_Step]_vars


\* the forEach iteration that ran last accepted its element, now data[index]
LastAccepted == index >= 1 /\ thrown = NoError /\ rawQuestion \notin {Undefined, Null}
\* the forEach iteration that ran last looked at an object
LastLooked == npc # "parse" /\ rawQuestion \notin {Undefined, Null}

OptionText(o) == Trim(o.s)

\* C7: every question of a batch that validateAndParseQuizData accepts for MCQ or Fill
\* in the Blanks has exactly 4 options, each a non-empty string, pairwise distinct
\* after trimming, and a correctAnswer that is an integer in 0..3.
C7_AcceptedChoiceBatch ==
    (npc = "done" /\ ret.t = "array" /\ questionType # "True/False") =>
        \A k \in 1..Len(ret.a) :
            LET q == ret.a[k]
            IN /\ IsArray(q.options)
               /\ Len(q.options.a) = 4
               /\ \A i \in 1..4 : IsString(q.options.a[i]) /\ OptionText(q.options.a[i]) # <<>>
               /\ \A i, j \in 1..4 :
                     i # j => OptionText(q.options.a[i]) # OptionText(q.options.a[j])
               /\ q.correctAnswer.t = "number"
               /\ q.correctAnswer.n \in 0..3

\* an accepted MCQ batch of two whose last raw question had options that needed trimming
C7_Witness ==
    /\ npc = "done" /\ ret.t = "array" /\ questionType = "MCQ" /\ Len(ret.a) = 2
    /\ rawQuestion.options.a[1] = Str(<<" ", "a">>)
    /\ ret.a[2].options.a[1] = Str(<<"a">>)
    /\ rawQuestion.correctAnswer = Str(<<" ", "2">>)

TruthyAnswers == { Bool(TRUE), Str(<<"t", "r", "u", "e">>), Str(<<"1">>), Num(1) }
FalsyAnswers == { Bool(FALSE), Str(<<"f", "a", "l", "s", "e">>), Str(<<"0">>), Num(0) }

\* C8: for True/False, a raw correctAnswer among true, "true", "1", 1 is normalised to
\* index 0 and one among false, "false", "0", 0 to index 1; none of the eight is taken
\* for a missing answer.
C8_TrueFalseIndex ==
    (questionType = "True/False" /\ LastLooked
        /\ rawQuestion.correctAnswer \in TruthyAnswers \cup FalsyAnswers) =>
        /\ thrown.name # "none" => thrown.message = "is missing or has invalid question text"
        /\ LastAccepted =>
              data[index].correctAnswer =
                 Num(IF rawQuestion.correctAnswer \in TruthyAnswers THEN 0 ELSE 1)

\* the number 1 was normalised to index 0 and the call returned the batch
C8_Witness ==
    /\ questionType = "True/False" /\ LastAccepted /\ npc = "done" /\ ret.t = "array"
    /\ rawQuestion.correctAnswer = Num(1)
    /\ ret.a[index].correctAnswer = Num(0)

\* the last raw question is a Fill in the Blanks prompt with no blank or several
BadBlankCount ==
    /\ questionType = "Fill in the Blanks" /\ LastLooked
    /\ IsString(rawQuestion.question)
    /\ CountMatches(rawQuestion.question.s, BlankMarker) # 1

\* C9: a Fill in the Blanks question with zero or several blank markers makes the
\* normalisation fail, and what the normaliser returns to its caller is a typed
\* validation failure naming the question and the reason.
C9_BlankFailureTyped ==
    (npc = "done" /\ BadBlankCount) =>
        /\ ret.t # "array"
        /\ ret # Null
        /\ ret.t = "failure"
        /\ ret.questionNum = index + 1

(***************************************************************************)
(* POST /api/quiz-results with the scores a client may claim for a quiz of *)
(* one question: none, all, and more than the quiz has questions.          *)
(***************************************************************************)
ScoreRequests ==
    {RecordRequest("recordResult", u, ResultBody(Num(1), Num(score)))
        : u \in Users, score \in 0..2}

InitScore == NormIdle /\ TablesInit /\ postBody = PlainBody /\ recordReq \in ScoreRequests

NextScore ==
    \/ \E u \in Users, dbOk \in BOOLEAN : CreateQuiz(u, dbOk) /\ UNCHANGED nvars
    \/ StartRecord /\ UNCHANGED nvars
    \/ \E r \in reqs, ok \in BOOLEAN : Connected(r, ok, TRUE) /\ UNCHANGED nvars
    \/ \E r \in reqs : Selected(r, TRUE) /\ UNCHANGED nvars
    \/ \E r \in reqs : Begun(r, TRUE) /\ UNCHANGED nvars
    \/ \E r \in reqs : Inserted(r, TRUE) /\ UNCHANGED nvars
    \/ \E r \in reqs, ok \in BOOLEAN : Committed(r, ok) /\ UNCHANGED nvars
    \/ \E r \in reqs : RolledBack(r, TRUE, TRUE) /\ UNCHANGED nvars

SpecScore == InitScore /\ [][NextScore]_vars

(***************************************************************************)
(* QuizGenerator.jsx: formatQuizQuestions (lines 107-145) and the bodies   *)
(* the component posts.                                                    *)
(***************************************************************************)
\* the signed-in user of the client, sent as user-id and as username
UserId == "userA"

\* the component state the model keeps fixed: topic, difficulty, language
TopicText == Str(<<"t">>)
DifficultyText == Str(<<"Easy">>)
LanguageText == Str(<<"english">>)

TrueFalseOptions == Arr(<<Str(<<"True">>), Str(<<"False">>)>>)

\* lines 122-140: what makes formatQuizQuestions throw for a question
FormatThrows(q, qt) ==
    /\ qt \in {"MCQ", "Fill in the Blanks"}
    /\ \/ ParseInt(q.correctAnswer) = NaN
       \/ ~IsArray(q.options)
       \/ Len(q.options.a) # 4

\* lines 110-143: one question as saveQuiz sends it
FormatQuestion(q, qt) ==
    [question |-> q.question,
     explanation |-> IF Falsy(q.explanation) THEN Str(<<>>) ELSE q.explanation,
     correctAnswer |-> IF qt = "True/False" THEN Num(TrueFalseIndex(q.correctAnswer))
                       ELSE ParseInt(q.correctAnswer),
     options |-> IF qt = "True/False" THEN TrueFalseOptions
                 ELSE Arr([k \in 1..Len(q.options.a) |-> Str(StringOf(q.options.a[k]))])]

\* lines 107-145
formatQuizQuestions(quizData, qt) ==
    IF quizData = Null THEN <<>>
    ELSE [k \in 1..Len(quizData.a) |-> FormatQuestion(quizData.a[k], qt)]

\* lines 382-392: requestPayload of saveQuiz
SavePayload(quizData) ==
    QuizBody(Str(<<"t Quiz">>), Num(numQuestions), DifficultyText, Str(<<questionType>>),
             LanguageText, Arr(formatQuizQuestions(quizData, questionType)))

\* lines 583-607: the body saveQuizHistory posts
HistoryPayload(id) ==
    [quizId |-> Num(id), promptUsed |-> Str(<<"prompt">>),
     generationParameters |->
         [topic |-> TopicText, difficulty |-> DifficultyText,
          numQuestions |-> Num(numQuestions), questionType |-> Str(<<questionType>>),
          language |-> LanguageText]]

\* userAnswers[index]: undefined for a question never answered
AnswerOf(k) ==
    IF \E p \in userAnswers : p.index = k
    THEN Num((CHOOSE p \in userAnswers : p.index = k).answer)
    ELSE Undefined

\* lines 490-505: calculateScore
RECURSIVE ScoreFrom(_)
ScoreFrom(k) ==
    IF k > Len(quiz.a) THEN 0
    ELSE (IF AnswerOf(k - 1) = quiz.a[k].correctAnswer THEN 1 ELSE 0) + ScoreFrom(k + 1)
calculateScore == ScoreFrom(1)

\* lines 513-547: the body submitQuiz posts; JSON.stringify drops the answer key of a
\* question that has no answer
SubmitPayload ==
    [quizId |-> Num(stateQuizId), score |-> Num(calculateScore),
     totalQuestions |-> Num(Len(quiz.a)),
     userAnswers |-> Arr([k \in 1..Len(quiz.a) |->
                            [questionIndex |-> Num(k - 1), answer |-> AnswerOf(k - 1),
                             correct |-> Bool(AnswerOf(k - 1) = quiz.a[k].correctAnswer)]]),
     timeTaken |-> Num(0)]

(***************************************************************************)
(* QuizGenerator.jsx: generateQuiz (lines 423-477), submitQuiz (lines       *)
(* 506-579) and what the component renders (lines 205-211, 805-807,        *)
(* 822-984).  One action per click and per settled await;                  *)
(* validateAndParseQuizData runs between two of them.                      *)
(***************************************************************************)
ErrorToast(message) == [kind |-> "error", message |-> message]
SuccessToast(message) == [kind |-> "success", message |-> message]

\* the quiz is rendered whatever error holds
FormRendered_Always == TRUE

\* lines 209-211 come before the form: with error set the component renders only
\* <div>Error: {error}</div>
FormRendered == error = Null

\* lines 805-807: <Button onClick={generateQuiz} disabled={loading || !topic}>
GenerateAvailable(topic) == FormRendered /\ ~loading /\ topic # <<>>

\* lines 822-984: {loading ? <QuizSkeleton /> : quiz ? the questions, Retake and
\* Submit Quiz : null}
QuizRendered == mounted /\ FormRendered /\ ~loading /\ quiz # Null

\* the topics typed into the form: blank, and a word
Topics == {<<" ">>, <<"t">>}

\* the messages an Error of the AI provider comes with
FailureMessages == {"", "fetch failed"}

\* the six keys of the draft configuration, lines 195-200 and 562-567
DraftKeys ==
    {"quizTopic", "quizNumQuestions", "quizDifficulty", "quizQuestionType", "quizLanguage",
     "quizQuestionLanguage"}

normvars == <<questionType, numQuestions, parsed, index, data, rawQuestion, thrown, ret, npc>>

\* lines 470-476: the catch and the finally of generateQuiz
Caught(message) ==
    LET shown == IF message = "" THEN "Failed to generate quiz" ELSE message
    IN /\ toast' = ErrorToast(shown)
       /\ error' = Str(<<shown>>)
       /\ loading' = FALSE
       /\ gpc' = "idle"

\* lines 424-439: the click on Generate, up to the await of generateContent
Generate(topic) ==
    /\ mounted
    /\ gpc = "idle" /\ spc = "idle"
    /\ GenerateAvailable(topic)
    /\ IF ~genAI
       THEN toast' = ErrorToast("AI service not initialized")
            /\ UNCHANGED <<loading, error, gpc, calls>>
       ELSE IF Trim(topic) = <<>>
       THEN toast' = ErrorToast("Please enter a topic")
            /\ UNCHANGED <<loading, error, gpc, calls>>
       ELSE /\ loading' = TRUE
            /\ error' = Null
            /\ gpc' = "generateContent"
            /\ calls' = <<"generateContent">>
            /\ UNCHANGED toast
    /\ UNCHANGED <<genAI, quiz, stateQuizId, userAnswers, spc, mounted, storage, view>>
    /\ UNCHANGED normvars
    /\ UNCHANGED svars

\* lines 440-444: generateContent settled.  Rejected: the catch.  Fulfilled with a
\* text that JSON.parse turns into p: validateAndParseQuizData is called
Generated(ok, message, p) ==
    /\ gpc = "generateContent"
    /\ IF ok
       THEN /\ parsed' = p
            /\ index' = 0
            /\ data' = <<>>
            /\ rawQuestion' = Undefined
            /\ thrown' = NoError
            /\ ret' = NotReturned
            /\ npc' = "parse"
            /\ gpc' = "validateAndParseQuizData"
            /\ calls' = Append(calls, "validateAndParseQuizData")
            /\ UNCHANGED <<loading, error, toast>>
       ELSE /\ Caught(message)
            /\ UNCHANGED <<parsed, index, data, rawQuestion, thrown, ret, npc, calls>>
    /\ UNCHANGED <<genAI, quiz, questionType, numQuestions, stateQuizId, userAnswers, spc,
                   mounted, storage, view>>
    /\ UNCHANGED svars

\* every batch goes on to saveQuiz
BatchRejected_Never(batch) == FALSE

\* line 445: if (!quizData)
BatchRejected(batch) == batch = Null

\* lines 444-452 and 379-407: validateAndParseQuizData returned.  null: the Error of
\* line 446 goes to the catch.  Otherwise setQuiz, and saveQuiz formats the questions
\* and posts them; an Error of formatQuizQuestions is rethrown by its catch
Parsed ==
    /\ gpc = "validateAndParseQuizData"
    /\ npc = "done"
    /\ IF BatchRejected(ret)
       THEN Caught("Failed to parse quiz data") /\ UNCHANGED <<quiz, calls, postBody>>
       ELSE /\ quiz' = ret
            /\ calls' = Append(calls, "saveQuiz")
            /\ IF ret # Null /\ \E k \in 1..Len(ret.a) : FormatThrows(ret.a[k], questionType)
               THEN Caught("Failed to save quiz") /\ UNCHANGED postBody
               ELSE /\ postBody' = SavePayload(ret)
                    /\ gpc' = "saveQuiz"
                    /\ UNCHANGED <<loading, error, toast>>
    /\ UNCHANGED <<genAI, stateQuizId, userAnswers, spc, mounted, storage, view>>
    /\ UNCHANGED normvars
    /\ UNCHANGED <<quizzes, quiz_results, quiz_history, results_seq, history_seq,
                   checked_out, reqs, recordReq, now, last>>

\* error.response?.data?.message of a response that is not 2xx
ResponseMessage(response) ==
    IF response.status = 400 THEN "Validation failed" ELSE response.body.message

\* lines 396-421 and 452-455: the POST of saveQuiz settled.  net: whether the request
\* and its response got through; dbOk: whether pg ran the INSERT.  201 with an id:
\* setQuizId, and saveQuizHistory posts.  Anything else: the catch of saveQuiz
\* rethrows the message of the response, or "Failed to save quiz"
Saved(net, dbOk) ==
    /\ gpc = "saveQuiz"
    /\ IF ~net
       THEN /\ Caught("Failed to save quiz")
            /\ UNCHANGED <<stateQuizId, calls>>
            /\ UNCHANGED svars
       ELSE /\ CreateQuiz(UserId, dbOk)
            /\ IF last'.status = 201
               THEN /\ stateQuizId' = last'.body.quiz.id
                    /\ calls' = Append(calls, "saveQuizHistory")
                    /\ gpc' = "saveQuizHistory"
                    /\ UNCHANGED <<loading, error, toast>>
               ELSE /\ Caught(ResponseMessage(last'))
                    /\ UNCHANGED <<stateQuizId, calls>>
    /\ UNCHANGED <<genAI, quiz, userAnswers, spc, mounted, storage, view>>
    /\ UNCHANGED normvars

\* lines 599-613: the POST of saveQuizHistory reached the route, or failed on its way
HistoryPosted(net) ==
    /\ gpc = "saveQuizHistory"
    /\ IF net
       THEN /\ Start("recordHistory", UserId, HistoryPayload(stateQuizId))
            /\ gpc' = "saveQuizHistory response"
            /\ UNCHANGED <<loading, error, toast>>
       ELSE /\ Caught("Failed to save quiz history")
            /\ UNCHANGED svars
    /\ UNCHANGED <<genAI, quiz, calls, stateQuizId, userAnswers, spc, mounted, storage, view>>
    /\ UNCHANGED normvars

\* lines 615-630 and 458-476: the route answered.  201: the success notice.  Anything
\* else: the catch of saveQuizHistory rethrows a fixed message
HistorySaved ==
    /\ gpc = "saveQuizHistory response"
    /\ reqs = {}
    /\ last.status # 0
    /\ IF last.status = 201
       THEN /\ toast' = SuccessToast("Quiz generated and saved successfully!")
            /\ loading' = FALSE
            /\ gpc' = "idle"
            /\ UNCHANGED error
       ELSE Caught("Failed to save quiz history")
    /\ UNCHANGED <<genAI, quiz, calls, stateQuizId, userAnswers, spc, mounted, storage, view>>
    /\ UNCHANGED normvars
    /\ UNCHANGED svars

\* lines 478-488: handleAnswerSelect for an option of a question shown
handleAnswerSelect(questionIndex, answer) ==
    /\ QuizRendered
    /\ questionIndex < Len(quiz.a)
    /\ userAnswers' = {p \in userAnswers : p.index # questionIndex}
                      \cup {[index |-> questionIndex, answer |-> answer]}
    /\ UNCHANGED <<genAI, loading, error, quiz, toast, gpc, calls, stateQuizId, spc,
                   mounted, storage, view>>
    /\ UNCHANGED normvars
    /\ UNCHANGED svars

\* lines 659-668: retakeQuiz, confirmed
retakeQuiz ==
    /\ QuizRendered
    /\ userAnswers' = {}
    /\ toast' = SuccessToast("Answers cleared. You can now retake the quiz!")
    /\ UNCHANGED <<genAI, loading, error, quiz, gpc, calls, stateQuizId, spc, mounted,
                   storage, view>>
    /\ UNCHANGED normvars
    /\ UNCHANGED svars

\* lines 506-554: the click on Submit Quiz.  net: whether the POST reached the route
submitQuiz(net) ==
    /\ QuizRendered
    /\ gpc = "idle" /\ spc = "idle"
    /\ IF stateQuizId = 0
       THEN /\ toast' = ErrorToast("Quiz ID is missing. Please generate a new quiz.")
            /\ UNCHANGED spc
            /\ UNCHANGED svars
       ELSE IF ~net
       THEN /\ toast' = ErrorToast("Failed to submit quiz. Please try again.")
            /\ UNCHANGED spc
            /\ UNCHANGED svars
       ELSE /\ Start("recordResult", UserId, SubmitPayload)
            /\ spc' = "response"
            /\ UNCHANGED toast
    /\ UNCHANGED <<genAI, loading, error, quiz, gpc, calls, stateQuizId, userAnswers,
                   mounted, storage, view>>
    /\ UNCHANGED normvars

\* lines 191-202: the cleanup of the effect.  hidden: document.hidden at that time
Cleanup(keys, hidden) == IF hidden THEN keys ELSE keys \ DraftKeys

\* lines 555-578: the route answered submitQuiz.  2xx: the score is stored, the draft
\* keys are removed, and navigate("/quiz-completed") unmounts the component.  Anything
\* else: the notice of the catch
Submitted(hidden) ==
    /\ spc = "response"
    /\ reqs = {}
    /\ last.status # 0
    /\ spc' = "idle"
    /\ IF last.status = 201
       THEN /\ storage' = Cleanup((storage \ DraftKeys) \cup {"quizScore", "quizTotal"}, hidden)
            /\ toast' = SuccessToast("Quiz submitted successfully!")
            /\ mounted' = FALSE
       ELSE /\ toast' = ErrorToast("Failed to submit quiz. Please try again.")
            /\ UNCHANGED <<storage, mounted>>
    /\ UNCHANGED <<genAI, loading, error, quiz, gpc, calls, stateQuizId, userAnswers, view>>
    /\ UNCHANGED normvars
    /\ UNCHANGED svars

\* lines 683-790: a field of the form was changed, and its key written
Configure(key) ==
    /\ mounted /\ FormRendered
    /\ storage' = storage \cup {key}
    /\ UNCHANGED <<genAI, loading, error, quiz, toast, gpc, calls, stateQuizId,
                   userAnswers, spc, mounted, view>>
    /\ UNCHANGED normvars
    /\ UNCHANGED svars

\* the user leaves /generate-quiz for another route: the component unmounts
Unmount(hidden) ==
    /\ mounted
    /\ gpc = "idle" /\ spc = "idle"
    /\ mounted' = FALSE
    /\ storage' = Cleanup(storage, hidden)
    /\ UNCHANGED <<genAI, loading, error, quiz, toast, gpc, calls, stateQuizId,
                   userAnswers, spc, view>>
    /\ UNCHANGED normvars
    /\ UNCHANGED svars

\* the component mounts with the state of lines 152-189, on a page loaded again or on
\* a return to /generate-quiz; apiKey: whether VITE_GOOGLE_AI_API_KEY is set
Reload(apiKey) ==
    /\ gpc = "idle" /\ spc = "idle"
    /\ mounted' = TRUE
    /\ genAI' = apiKey
    /\ error' = IF apiKey THEN Null ELSE Str(<<"Google AI API key is missing">>)
    /\ loading' = FALSE
    /\ quiz' = Null
    /\ stateQuizId' = 0
    /\ userAnswers' = {}
    /\ toast' = NoToast
    /\ UNCHANGED <<gpc, calls, spc, storage, view>>
    /\ UNCHANGED normvars
    /\ UNCHANGED svars

\* a well-formed question whose answer is the index a
GoodQuestion(a) ==
    [question |-> GoodText, correctAnswer |-> Num(a), explanation |-> Str(<<"e">>),
     options |-> GoodOptions]

\* the elements the provider's array is made of: a well-formed question, and null
GenQuestions == {GoodQuestion(1), Null}

InitGen ==
    /\ GenIdle
    /\ questionType \in QuestionTypes
    /\ numQuestions \in 1..MaxBatch
    /\ parsed = [kind |-> "array", len |-> 0]
    /\ index = 0
    /\ data = <<>>
    /\ rawQuestion = Undefined
    /\ thrown = NoError
    /\ ret = NotReturned
    /\ npc = "idle"
    /\ TablesInit
    /\ postBody = PlainBody
    /\ recordReq = PlainRecord

\* validateAndParseQuizData inside generateQuiz, on an array of elements of Q
Normalise(Q) ==
    /\ gpc = "validateAndParseQuizData"
    /\ \/ ParseText
       \/ \E q \in Q : ForEachQuestion(q)
    /\ UNCHANGED <<gvars, svars>>

\* the handler of POST /api/quiz-history or /api/quiz-results at its next await;
\* outcomes: whether pg may fulfil and may reject what is awaited
Handle(outcomes) ==
    /\ \E r \in reqs, ok \in outcomes, express5 \in BOOLEAN :
          \/ Connected(r, ok, express5)
          \/ Selected(r, ok)
          \/ Begun(r, ok)
          \/ Inserted(r, ok)
          \/ Committed(r, ok)
          \/ RolledBack(r, ok, express5)
    /\ UNCHANGED nvars

NextGen ==
    \/ \E topic \in Topics : Generate(topic)
    \/ \E ok \in BOOLEAN, message \in FailureMessages, p \in ParsedValues :
          Generated(ok, message, p)
    \/ Normalise(GenQuestions)
    \/ Parsed
    \/ \E net \in BOOLEAN, dbOk \in BOOLEAN : Saved(net, dbOk)
    \/ \E net \in BOOLEAN : HistoryPosted(net)
    \/ HistorySaved
    \/ Handle(BOOLEAN)
    \/ \E apiKey \in BOOLEAN : Reload(apiKey)


SpecGen == InitGen /\ [][NextGen]_vars

(***************************************************************************)
(* The quiz on screen: a one-question MCQ quiz is generated, answered,     *)
(* retaken and submitted, the form is changed and the component is left    *)
(* and entered again, against the routes of the server.                    *)
(***************************************************************************)
\* the elements the provider's array is made of: two questions that differ in their answer
QuizQuestions == {GoodQuestion(0), GoodQuestion(1)}

\* the controls of the form that are changed
FormKeys == {"quizTopic", "quizNumQuestions", "quizQuestionLanguage"}

\* the options that are clicked
Choices == {0, 1}

InitQuiz ==
    /\ GenIdle
    /\ questionType = "MCQ"
    /\ numQuestions = 1
    /\ parsed = [kind |-> "array", len |-> 0]
    /\ index = 0
    /\ data = <<>>
    /\ rawQuestion = Undefined
    /\ thrown = NoError
    /\ ret = NotReturned
    /\ npc = "idle"
    /\ TablesInit
    /\ postBody = PlainBody
    /\ recordReq = PlainRecord

NextQuiz ==
    \/ Generate(<<"t">>)
    \/ \E ok \in BOOLEAN : Generated(ok, "fetch failed", [kind |-> "array", len |-> numQuestions])
    \/ Normalise(QuizQuestions)
    \/ Parsed
    \/ \E net \in BOOLEAN : Saved(net, TRUE)
    \/ \E net \in BOOLEAN : HistoryPosted(net)
    \/ HistorySaved
    \/ Handle(BOOLEAN)
    \/ \E questionIndex \in 0..(numQuestions - 1), answer \in Choices :
          handleAnswerSelect(questionIndex, answer)
    \/ retakeQuiz
    \/ \E net \in BOOLEAN : submitQuiz(net)
    \/ Submitted(FALSE)
    \/ Reload(TRUE)

SpecQuiz == InitQuiz /\ [][NextQuiz]_vars

(***************************************************************************)
(* QuizDetails.jsx: the effect with fetchQuizDetails (lines 38-182),       *)
(* retryFetch (lines 184-189) and what is rendered (lines 191-231), for    *)
(* the signed-in user, against GET /api/quizzes/:id.                       *)
(***************************************************************************)
\* the ids the route /quiz-details/:quizId is entered with
DetailIds == 1..(MaxQuizzes + 1)

\* the view while the GET of fetchQuizDetails is in flight
Fetching(id) ==
    [open |-> TRUE, quizId |-> id, loading |-> TRUE, error |-> Null, retrying |-> FALSE,
     quiz |-> Null, pc |-> "fetch"]

\* lines 100-121 and 141-167: what fetchQuizDetails makes of the settled GET.  axios
\* rejects without a response, and on a status of 500 and more (validateStatus)
FetchError(net, response) ==
    IF ~net THEN Str(<<"Could not reach the server. Please check your connection.">>)
    ELSE IF response.status >= 500 THEN Str(<<response.body.message>>)
    ELSE IF response.status = 404 THEN Str(<<"Quiz not found">>)
    ELSE IF response.status # 200 THEN Str(<<"Invalid response format received from server">>)
    ELSE IF Len(response.body.quiz.questions) = 0 THEN Str(<<"Quiz data is missing questions">>)
    ELSE Null

\* the component mounts on /quiz-details/:quizId.  cached: location.state carries the
\* quiz of that id (lines 44-66), and nothing is fetched
OpenDetails(id, cached) ==
    /\ ~view.open
    /\ IF cached
       THEN /\ DetailRows(id, UserId) # {}
            /\ view' = [Fetching(id) EXCEPT !.loading = FALSE, !.pc = "shown",
                                            !.quiz = DetailResponse(UserId, id).body.quiz]
       ELSE view' = Fetching(id)
    /\ UNCHANGED <<genAI, loading, error, quiz, toast, gpc, calls, stateQuizId, userAnswers,
                   spc, mounted, storage>>
    /\ UNCHANGED normvars
    /\ UNCHANGED svars

\* lines 69-173: the GET settled.  net: whether an answer came within the timeout;
\* dbOk: whether pg answered the query.  The finally block ends the loading
DetailsFetched(net, dbOk) ==
    /\ view.open /\ view.pc = "fetch"
    /\ IF net THEN GetQuizDetail(UserId, view.quizId, dbOk) ELSE UNCHANGED svars
    /\ view' = [view EXCEPT !.loading = FALSE, !.pc = "shown",
                            !.error = FetchError(net, last'),
                            !.quiz = IF FetchError(net, last') = Null
                                     THEN last'.body.quiz ELSE view.quiz]
    /\ UNCHANGED <<genAI, loading, error, quiz, toast, gpc, calls, stateQuizId, userAnswers,
                   spc, mounted, storage>>
    /\ UNCHANGED normvars

\* lines 207-231: the error page with its Try Again button, disabled={retrying}
TryAgainShown == view.open /\ ~view.loading /\ view.error # Null /\ ~view.retrying

\* lines 184-189: retryFetch.  The three updates are queued, then fetchQuizDetails,
\* a const of the effect callback and not in scope here, is a ReferenceError: nothing is
\* fetched and the finally with setRetrying(false) is never attached
retryFetch ==
    /\ TryAgainShown
    /\ view' = [view EXCEPT !.retrying = TRUE, !.error = Null, !.loading = TRUE,
                            !.pc = "threw"]
    /\ UNCHANGED <<genAI, loading, error, quiz, toast, gpc, calls, stateQuizId, userAnswers,
                   spc, mounted, storage>>
    /\ UNCHANGED normvars
    /\ UNCHANGED svars

\* the user leaves the route: the component unmounts
CloseDetails ==
    /\ view.open
    /\ view' = DetailsClosed
    /\ UNCHANGED <<genAI, loading, error, quiz, toast, gpc, calls, stateQuizId, userAnswers,
                   spc, mounted, storage>>
    /\ UNCHANGED normvars
    /\ UNCHANGED svars

InitDetails == NormIdle /\ TablesInit /\ postBody = PlainBody /\ recordReq = PlainRecord

FetchSettles == \E net \in BOOLEAN, dbOk \in BOOLEAN : DetailsFetched(net, dbOk)

NextDetails ==
    \/ \E u \in Users, dbOk \in BOOLEAN : CreateQuiz(u, dbOk) /\ UNCHANGED nvars
    \/ \E id \in DetailIds, cached \in BOOLEAN : OpenDetails(id, cached)
    \/ FetchSettles
    \/ retryFetch
    \/ CloseDetails

\* axios settles every GET: with the answer, or with the timeout of 8000 ms
SpecDetails == InitDetails /\ [][NextDetails]_vars /\ WF_vars(FetchSettles)

(***************************************************************************)
(* The draft configuration in localStorage: the form is changed, a quiz is *)
(* generated, answered and submitted, and the component is left (with the  *)
(* document hidden or not) and entered again; the provider and the server  *)
(* answer every request.                                                   *)
(***************************************************************************)
NextDraft ==
    \/ \E key \in FormKeys : Configure(key)
    \/ Generate(<<"t">>)
    \/ Generated(TRUE, "", [kind |-> "array", len |-> numQuestions])
    \/ Normalise({GoodQuestion(1)})
    \/ Parsed
    \/ Saved(TRUE, TRUE)
    \/ HistoryPosted(TRUE)
    \/ HistorySaved
    \/ Handle({TRUE})
    \/ handleAnswerSelect(0, 1)
    \/ submitQuiz(TRUE)
    \/ \E hidden \in BOOLEAN : Submitted(hidden)
    \/ \E hidden \in BOOLEAN : Unmount(hidden)
    \/ Reload(TRUE)

SpecDraft == InitQuiz /\ [][NextDraft]_vars

(***************************************************************************)
(* C15: every /api request that comes without the user-id header or without*)
(* the username header is answered 401 by simpleAuth and neither writes a   *)
(* table nor checks a client out of the pool; GET /health is answered, 200  *)
(* or 503, with no identity header at all.                                  *)
(***************************************************************************)
LacksIdentity(headers) == Falsy(headers.userId) \/ Falsy(headers.username)

\* a request without identity leaves the tables and the pool alone
C15_NoDatabaseAccess ==
    [][\A headers \in HeaderSets :
          (LacksIdentity(headers) /\ (Quizzes(headers) \/ Records(headers)))
          => UNCHANGED <<quizzes, quiz_results, quiz_history, results_seq,
                         history_seq, checked_out, reqs>>]_vars

C15_Step ==
    /\ \A headers \in HeaderSets :
          (/\ LacksIdentity(headers)
           /\ (Quizzes(headers) \/ Records(headers)))
          => /\ last'.status = 401
             /\ last'.body = ErrorBody("Authentication required")
             /\ UNCHANGED <<quizzes, quiz_results, quiz_history, results_seq,
                            history_seq, checked_out, reqs>>
    /\ (\E dbOk \in BOOLEAN : Health(dbOk)) => last'.status \in {200, 503}

C15_IdentityRequired == [][C15_Step]_vars

\* the notices of the two guards of generateQuiz, lines 424-432
GuardMessages == {"AI service not initialized", "Please enter a topic"}

\* a generateQuiz has ended in its catch, and nothing was done since
GenerationFailed ==
    /\ gpc = "idle"
    /\ toast.kind = "error"
    /\ toast.message \notin GuardMessages

\* every generateQuiz that ends without the success notice ends with an error notice
C20_FailureSurfaced ==
    [][(gpc # "idle" /\ gpc' = "idle" /\ toast'.kind # "success")
          => toast'.kind = "error" /\ toast'.message # ""]_vars

\* C20: after a generateQuiz that failed (the provider call, the normalisation, the
\* save of the quiz or of its history) the failure is shown as a notice and the
\* Generate button of the same component can be clicked again.
C20_RetryAfterFailure ==
    GenerationFailed =>
        /\ toast.message # ""
        /\ \E topic \in Topics : GenerateAvailable(topic)

\* the question text of a raw question fails the check of lines 261-269
TextInvalid(q) == Falsy(q.question) \/ ~IsString(q.question) \/ Trim(q.question.s) = <<>>
\* its correct answer fails the check of lines 271-278
AnswerMissing(q) == q.correctAnswer \in {Undefined, Null}

\* the messages of the checks of the MCQ / Fill in the Blanks branch
TypeSpecificMessages ==
    {"is missing options array", "must have exactly 4 options", "has empty options",
     "has duplicate options", "must contain ___ to indicate the blank",
     "should have only one blank (___)", "has invalid correct answer index. Must be 0-3"}

\* C23: a batch with an invalid question gives null, no question of it; the error
\* thrown is the one of the first invalid question, every question before it having
\* been accepted, and of its checks the question text comes first, the presence of
\* the correct answer second, the checks of the question type last.  A batch that is
\* returned holds every one of its questions.
C23_FirstErrorAllOrNothing ==
    /\ (npc = "done" /\ ret = Null /\ rawQuestion \notin {Undefined, Null}) =>
          /\ thrown.name = "Error"
          /\ thrown.questionNum = Len(data) + 1
          /\ thrown.questionNum = index + 1
          /\ TextInvalid(rawQuestion) <=>
                thrown.message = "is missing or has invalid question text"
          /\ (~TextInvalid(rawQuestion) /\ AnswerMissing(rawQuestion)) <=>
                thrown.message = "is missing the correct answer"
          /\ (~TextInvalid(rawQuestion) /\ ~AnswerMissing(rawQuestion)) <=>
                thrown.message \in TypeSpecificMessages
    /\ (npc = "done" /\ ret # Null) =>
          /\ thrown = NoError
          /\ Len(ret.a) = parsed.len
          /\ ret.a = data

\* the second question of a batch had a blank text and no answer, after an accepted one
C23_Witness ==
    /\ npc = "done"
    /\ ret = Null
    /\ Len(data) = 1
    /\ rawQuestion # Null
    /\ TextInvalid(rawQuestion)
    /\ AnswerMissing(rawQuestion)
    /\ thrown.questionNum = 2

\* a batch that validateAndParseQuizData rejects is neither shown nor sent
C23_NothingShown ==
    [][(Parsed /\ ret = Null) => (quiz' = quiz /\ UNCHANGED svars)]_vars

\* C28: every row of quiz_results has a score between 0 and its total_questions, and
\* its total_questions is the num_questions of the quiz it refers to.
C28_ScoreWithinTotal ==
    \A row \in quiz_results :
        /\ 0 <= row.score
        /\ row.score <= row.total_questions
        /\ \E k \in 1..Len(quizzes) :
              quizzes[k].id = row.quiz_id /\ quizzes[k].num_questions = row.total_questions

\* the quiz row the current questions were stored as
SavedRow == quizzes[stateQuizId]

\* C24: for a True/False quiz the correctAnswer that saveQuiz persists is the index
\* validateAndParseQuizData gave the question: formatQuizQuestions leaves it unchanged.
C24_TrueFalseIndexKept ==
    (gpc = "saveQuizHistory" /\ questionType = "True/False") =>
        \A k \in 1..Len(quiz.a) :
            SavedRow.questions[k].correctAnswer = quiz.a[k].correctAnswer

\* rows of quiz_history that refer to the quiz id
HistoryRowsOf(id) == {h \in quiz_history : h.quiz_id = id}

\* C21: a generateQuiz whose saveQuiz succeeded ends with exactly one quiz_history row
\* of the quiz it stored, never none and never more than one.
C21_OneHistoryRow ==
    [][(gpc \in {"saveQuizHistory", "saveQuizHistory response"} /\ gpc' = "idle")
          => Cardinality(HistoryRowsOf(stateQuizId)') = 1]_vars

\* no generateQuiz leaves more than one quiz_history row of its quiz
C21_AtMostOneHistoryRow ==
    \A k \in 1..Len(quizzes) : Cardinality(HistoryRowsOf(k)) <= 1

\* the calls of one generateQuiz, in the order of lines 437-458
CallOrder == <<"generateContent", "validateAndParseQuizData", "saveQuiz", "saveQuizHistory">>

\* the call that a step adds to the calls of the run, "" for a step that adds none
Called == IF calls' # calls /\ calls' # <<>> THEN calls'[Len(calls')] ELSE ""

C22_Step ==
    /\ Called = "saveQuiz" => (npc = "done" /\ ret # Null /\ quiz' = ret)
    /\ Called = "saveQuizHistory" =>
          (last'.status = 201 /\ stateQuizId' = last'.id /\ stateQuizId' \in 1..Len(quizzes'))
    /\ quizzes' # quizzes => (gpc = "saveQuiz" /\ ret # Null)

\* C22: within one generateQuiz the calls are, in this order, the provider call,
\* validateAndParseQuizData, saveQuiz and saveQuizHistory; saveQuiz is called only
\* with a batch that is not null, saveQuizHistory only after saveQuiz returned an id,
\* and no rejected batch is sent to POST /api/quizzes.
C22_CallOrder ==
    /\ [](\E n \in 0..Len(CallOrder) : calls = SubSeq(CallOrder, 1, n))
    /\ [][C22_Step]_vars

\* a generateQuiz went through its four calls and ended with the success notice
C22_Witness ==
    /\ calls = CallOrder
    /\ gpc = "idle"
    /\ toast.kind = "success"
    /\ Cardinality(HistoryRowsOf(stateQuizId)) = 1

\* this step is submitQuiz posting a result
ResultPosted == spc = "idle" /\ spc' = "response"

\* the request that is being answered
Posted == CHOOSE r \in reqs' : TRUE

\* C25: whenever submitQuiz posts a result, the quizId it sends is the id under which
\* the questions on screen were stored, never the id of an earlier quiz.
C25_SubmittedIdIsCurrent ==
    [][ResultPosted =>
          /\ Posted.body.quizId = Num(stateQuizId)
          /\ stateQuizId \in 1..Len(quizzes)
          /\ SavedRow.user_id = UserId
          /\ SavedRow.questions = JsonQuestions(formatQuizQuestions(quiz, questionType))]_vars

\* a result is posted for the second quiz, whose questions differ from the first one's
C25_Witness ==
    /\ spc = "response"
    /\ stateQuizId = 2
    /\ quizzes[1].questions # quizzes[2].questions
    /\ \E r \in reqs : r.op = "recordResult" /\ r.body.quizId = Num(2)

\* this step puts a new quiz on screen
NewQuizShown == quiz' # quiz /\ quiz' # Null

\* C26: when a new quiz is generated none of its questions has a recorded answer:
\* userAnswers is empty until handleAnswerSelect is called for the new quiz.
C26_NewQuizUnanswered ==
    [][NewQuizShown => userAnswers' = {}]_vars

\* the status of the answer to the result submitQuiz posted, 0 while there is none
SubmitStatus == IF spc = "response" /\ reqs = {} THEN last.status ELSE 0

\* C27: the body submitQuiz posts passes quizResultSchema whatever was answered, a
\* question left unanswered included: the result is stored (201), never rejected (400).
C27_PayloadAccepted == SubmitStatus # 400

\* a body of submitQuiz is answered 400 only when one of its answers is missing
C27_AnsweredAccepted ==
    [][(spc = "response" /\ last' # last /\ last'.status = 400) =>
          \E r \in reqs : \E k \in 1..Len(r.body.userAnswers.a) :
              r.body.userAnswers.a[k].answer = Undefined]_vars

\* the keys of the draft configuration that localStorage holds
DraftStored == storage \cap DraftKeys

\* this step is the answer 201 to submitQuiz
SubmitSucceeded == spc = "response" /\ spc' = "idle" /\ last.status = 201

\* C30: after submitQuiz succeeded, and after QuizGenerator unmounted, localStorage
\* holds none of the six keys of the draft configuration.
C30_DraftCleared ==
    [][(SubmitSucceeded \/ (mounted /\ ~mounted')) => DraftStored' = {}]_vars

\* a successful submitQuiz leaves none of the six keys
C30_ClearedOnSubmit ==
    [][SubmitSucceeded => DraftStored' = {}]_vars

\* a result was stored with keys of the draft configuration written before
C30_SubmitReached ==
    /\ ~mounted
    /\ "quizScore" \in storage
    /\ quiz_results # {}

\* the view shows the quiz or an error, or was left
LoadingEnded == ~view.open \/ (~view.loading /\ ~view.retrying)

\* C29: after Try Again (retryFetch) on the error page of QuizDetails the view
\* eventually leaves the loading state: loading and retrying are false again, and the
\* quiz or an error is shown.
C29_RetryEnds ==
    (view.open /\ view.pc = "threw") ~> LoadingEnded

\* the fetch of the mount always ends the loading state
C29_MountFetchEnds ==
    (view.open /\ view.pc = "fetch") ~> LoadingEnded

====
